---- MODULE Spec2Model ----
(***************************************************************************)
(* Model of the feature-extraction -> spatial-binning -> zone-wise         *)
(* regression -> archetype-derivation pipeline of StatsbombReader.         *)
(*                                                                         *)
(*   src/src/discipline.py          DisciplineAnalyzer                     *)
(*   src/src/reader/archetypes.py   derive_archetype                       *)
(*   src/src/reader/categorizer.py  attach_style_tags and the categorizers *)
(*   src/src/modeling_zone_nb.py    ZoneNBModeler                          *)
(*                                                                         *)
(* Pitch coordinates are kept in tenths of a unit (x = 120.0 is 1200), so  *)
(* that the code's float comparisons and divisions are exact integer       *)
(* arithmetic.  A share is the pair numerator / denominator the code       *)
(* divides; thresholds on shares and rates are in hundredths.              *)
(***************************************************************************)
EXTENDS Integers, Sequences, FiniteSets, TLC

VARIABLES
    \* DisciplineAnalyzer
    card_treatment,   \* self.card_treatment
    events,           \* events_df handed to extract_team_match_discipline
    features,         \* what extract_team_match_discipline returned
    style_features,   \* what extract_team_match_features returned
    location,         \* the (x, y) handed to get_zone_from_location
    zone,             \* what get_zone_from_location returned
    \* derive_archetype
    row,              \* the row handed to derive_archetype
    archetype,        \* what derive_archetype returned
    \* attach_style_tags followed by derive_archetype
    df,               \* the caller's feature table (one row)
    df_given,         \* the table as the caller built it
    df_tagged,        \* the categorization last returned
    df_tagged_prev,   \* the categorization returned by the call before
    \* ZoneNBModeler
    table,            \* the prepared modeling dataset
    fitted_models,    \* self.fitted_models
    model_summaries,  \* self.model_summaries
    fit_args,         \* the feature lists of the last fit_zone_nb_models call
    fit_outcome,      \* how the last fit_zone_nb_models call ended
    predictions,      \* how the last predict_expected_fouls call ended
    query,            \* how the last extract_referee_slopes or
                      \* calculate_referee_effects call ended
    disk,             \* the model directory
    saved,            \* the modeler as it was at the last save_models
    last_op,          \* the last call that set the modeler's maps
    coefficient,      \* a coefficient of a fitted model: its name, its p-value
    parsed,           \* what the last scan of the coefficient made of it
    \* the dataset builder and the real-time analyzer
    handoff           \* where the last extracted feature row went

vars == <<card_treatment, events, features, style_features, location, zone, row, archetype, df, df_given,
          df_tagged, df_tagged_prev, table, fitted_models, model_summaries,
          fit_args, fit_outcome, predictions, query, disk, saved, last_op,
          coefficient, parsed, handoff>>

discVars == <<card_treatment, events, features>>
styleVars == <<style_features>>
zoneVars == <<location, zone>>
nameVars == <<coefficient, parsed>>
pipeVars == <<handoff>>
archVars == <<row, archetype>>
catVars == <<df, df_given, df_tagged, df_tagged_prev>>
fitVars ==
    <<table, fitted_models, model_summaries, fit_args, fit_outcome, predictions,
      query, disk, saved, last_op>>

\* Python's None, a key that is absent, a float NaN, and "the call raised".
None == "None"
Missing == "Missing"
NaN == "NaN"
Raised == "Raised"
Returned == "Returned"
NotCalled == "NotCalled"

(***************************************************************************)
(* Bounds of the model.                                                    *)
(***************************************************************************)
MaxEvents == 3
MaxOverlays == 2
MaxBadZones == 2
MaxRefereeLen == 2

RECURSIVE SeqsUpTo(_, _)
SeqsUpTo(S, n) ==
    IF n = 0 THEN {<<>>}
    ELSE LET shorter == SeqsUpTo(S, n - 1)
         IN  shorter \cup {Append(s, e) : s \in {t \in shorter : Len(t) = n - 1}, e \in S}

Abs(n) == IF n < 0 THEN -n ELSE n

\* Python's int() of the float n/d (d > 0): truncation toward zero.
Trunc(n, d) == IF n >= 0 THEN n \div d ELSE -((-n) \div d)

RECURSIVE SumOver(_, _)
SumOver(f, S) ==
    IF S = {} THEN 0
    ELSE LET z == CHOOSE z \in S : TRUE IN f[z] + SumOver(f, S \ {z})

\* |a + b + c - 1| <= 0.1 for three quotients.
SumWithinTenthOfOne(a, b, c) ==
    LET d == a.den * b.den * c.den
        n == a.num * b.den * c.den + b.num * a.den * c.den + c.num * a.den * b.den
    IN  10 * Abs(n - d) <= d

Min(a, b) == IF a < b THEN a ELSE b
Max(a, b) == IF a > b THEN a ELSE b

(***************************************************************************)
(* DisciplineAnalyzer                                                      *)
(***************************************************************************)
x_bins == 5
y_bins == 3
field_length == 1200
field_width == 800

Zones == (0 .. x_bins - 1) \X (0 .. y_bins - 1)

\* A location is a list of two coordinates, a list too short to be one, a
\* list holding a NaN (has_nan), or no list at all (the empty list here).
Loc(x, y) == [list |-> <<x, y>>, has_nan |-> FALSE]
NoLocation == [list |-> <<>>, has_nan |-> FALSE]
ShortLocation == [list |-> <<600>>, has_nan |-> FALSE]
NaNLocation == [list |-> <<0, 400>>, has_nan |-> TRUE]
Locations ==
    { Loc(-10, -5), Loc(0, 0), Loc(240, 267), Loc(399, 533), Loc(400, 534),
      Loc(1200, 800), Loc(1300, 900) }

CardTypes == {"Yellow Card", "Red Card", "Second Yellow"}

Event(type, team, loc, foul_card, card) ==
    [event_type_name |-> type, team_name |-> team, location |-> loc,
     foul_card |-> foul_card, card_type |-> card]

\* The events a match's table is built from.
Events ==
    { Event("Foul Committed", "Team A", l, None, None) :
          l \in Locations \cup {NoLocation, NaNLocation} }
    \cup { Event("Foul Committed", "Team A", Loc(600, 400), c, None) : c \in CardTypes }
    \cup { Event("Bad Behaviour", "Team A", ShortLocation, None, None),
           Event("Bad Behaviour", "Team A", NoLocation, None, "Second Yellow"),
           Event("Foul Committed", "Team B", Loc(300, 200), "Yellow Card", None),
           Event("Pass", "Team B", Loc(500, 600), None, None),
           Event("Pass", "Team A", Loc(100, 400), None, None) }

\* An events table: its rows, and whether it has the event columns at all
\* (pd.DataFrame() has neither rows nor columns).
EventsTable(rows) == [has_columns |-> TRUE, rows |-> rows]
NoColumnsTable == [has_columns |-> FALSE, rows |-> <<>>]

EventTables == {EventsTable(r) : r \in SeqsUpTo(Events, MaxEvents)} \cup {NoColumnsTable}

\* The team's Foul Committed rows alone.
FoulCommittedOnly(events_df, team_name) ==
    SelectSeq(events_df.rows,
              LAMBDA e : e.team_name = team_name /\ e.event_type_name = "Foul Committed")

\* _extract_foul_events: the team's Foul Committed and Bad Behaviour rows, in
\* table order.
_extract_foul_events(events_df, team_name) ==
    SelectSeq(events_df.rows,
              LAMBDA e : e.team_name = team_name
                         /\ e.event_type_name \in {"Foul Committed", "Bad Behaviour"})

opponent_passes(events_df, opponent_name) ==
    SelectSeq(events_df.rows,
              LAMBDA e : e.team_name = opponent_name /\ e.event_type_name = "Pass")

\* The card a foul row carries: foul_card when set, else a Bad Behaviour
\* row's card_type.
CardOf(foul) ==
    IF foul.foul_card # None THEN foul.foul_card
    ELSE IF foul.event_type_name = "Bad Behaviour" THEN foul.card_type
    ELSE None

RECURSIVE CountCards(_, _, _)
CountCards(foul_events, treatment, acc) ==
    IF foul_events = <<>> THEN acc
    ELSE LET c == CardOf(Head(foul_events))
             next ==
                 IF c = "Yellow Card" THEN [acc EXCEPT !.yellows = @ + 1]
                 ELSE IF c = "Red Card" THEN [acc EXCEPT !.reds = @ + 1]
                 ELSE IF c = "Second Yellow" THEN
                     IF treatment = "separate"
                     THEN [acc EXCEPT !.second_yellows = @ + 1,
                                      !.yellows = @ + 1, !.reds = @ + 1]
                     ELSE [acc EXCEPT !.second_yellows = @ + 1, !.reds = @ + 1]
                 ELSE acc
         IN  CountCards(Tail(foul_events), treatment, next)

\* The tallies with a second yellow always counted as a red only.
BasicCountsRedOnly(foul_events, treatment) ==
    [fouls_committed |-> Len(foul_events)]
    @@ CountCards(foul_events, "red_only",
                  [yellows |-> 0, reds |-> 0, second_yellows |-> 0])

_extract_basic_counts(foul_events, treatment) ==
    [fouls_committed |-> Len(foul_events)]
    @@ CountCards(foul_events, treatment,
                  [yellows |-> 0, reds |-> 0, second_yellows |-> 0])

\* A float quotient n / d, kept as the pair the code divides.
Share(n, d) == [num |-> n, den |-> d]

\* fouls_per_opp_pass, as the numerator and denominator of the division.
_extract_rates(foul_events, n_opponent_passes) ==
    IF n_opponent_passes > 0
    THEN [fouls_per_opp_pass |-> Share(Len(foul_events), n_opponent_passes)]
    ELSE [fouls_per_opp_pass |-> Share(0, 1)]

\* 'location' in foul and isinstance(foul['location'], list) and len >= 2
HasLocation(foul) == Len(foul.location.list) >= 2

\* The grid cell of a located foul: min(int(x / zone_length), x_bins - 1), then
\* clamped into 0 .. x_bins - 1; zone_length = 120 / x_bins and zone_width =
\* 80 / y_bins, so x / zone_length = x * x_bins / 120.
GridCell(x, y) ==
    LET x_zone == Min(Trunc(x * x_bins, field_length), x_bins - 1)
        y_zone == Min(Trunc(y * y_bins, field_width), y_bins - 1)
    IN  << Max(0, Min(x_zone, x_bins - 1)), Max(0, Min(y_zone, y_bins - 1)) >>

\* get_zone_from_location(x, y), with x and y in thousandths of a unit (a
\* hundred times finer than the tenths of the event tables): zone_length = 120 / x_bins
\* and zone_width = 80 / y_bins.
ZoneWithoutUpperClamp(x, y) ==
    << Max(0, Trunc(x * x_bins, 100 * field_length)),
       Max(0, Trunc(y * y_bins, 100 * field_width)) >>

get_zone_from_location(x, y) ==
    LET x_zone == Min(Trunc(x * x_bins, 100 * field_length), x_bins - 1)
        y_zone == Min(Trunc(y * y_bins, 100 * field_width), y_bins - 1)
    IN  << Max(0, x_zone), Max(0, y_zone) >>

\* The coordinates get_zone_from_location is called with, in thousandths.
ZoneXs ==
    {-30000, -5000, -1, 0, 23999, 24000, 47990, 48000, 60000, 96000, 119999,
     120000, 130000}
ZoneYs ==
    {-30000, -3000, 0, 26600, 26666, 26667, 26669, 26670, 26700, 40000, 53300,
     53333, 53334, 53339, 53340, 79999, 80000, 90000}

NoZone == [status |-> NotCalled, cell |-> <<0, 0>>]

EmptySpatial ==
    [grid |-> [z \in Zones |-> 0],
     def_third_fouls |-> 0, mid_third_fouls |-> 0, att_third_fouls |-> 0,
     left_fouls |-> 0, center_fouls |-> 0, right_fouls |-> 0,
     located_fouls |-> 0, raised |-> FALSE]

\* features[f'foul_grid_x{x_zone}_y{y_zone}'] += 1
CountInCellOnce(grid, cell) == [grid EXCEPT ![cell] = 1]

CountInCell(grid, cell) == [grid EXCEPT ![cell] = @ + 1]

\* The loop of _extract_spatial_features over the foul rows.
RECURSIVE SpatialLoop(_, _)
SpatialLoop(foul_events, acc) ==
    IF foul_events = <<>> \/ acc.raised THEN acc
    ELSE LET foul == Head(foul_events)
         IN  IF ~HasLocation(foul) THEN SpatialLoop(Tail(foul_events), acc)
             ELSE IF foul.location.has_nan
             THEN [acc EXCEPT !.raised = TRUE]   \* int(nan) raises ValueError
             ELSE LET x == foul.location.list[1]
                      y == foul.location.list[2]
                      cell == GridCell(x, y)
                      a1 == [acc EXCEPT !.located_fouls = @ + 1]
                      a2 == [a1 EXCEPT !.grid = CountInCell(@, cell)]
                      a3 == IF x < 400 THEN [a2 EXCEPT !.def_third_fouls = @ + 1]
                            ELSE IF x < 800 THEN [a2 EXCEPT !.mid_third_fouls = @ + 1]
                            ELSE [a2 EXCEPT !.att_third_fouls = @ + 1]
                      a4 == IF 3 * y < field_width THEN [a3 EXCEPT !.left_fouls = @ + 1]
                            ELSE IF 3 * y < 2 * field_width
                            THEN [a3 EXCEPT !.center_fouls = @ + 1]
                            ELSE [a3 EXCEPT !.right_fouls = @ + 1]
                  IN  SpatialLoop(Tail(foul_events), a4)

\* The denominator of the shares of a table with located fouls.
ShareDenominatorAllFouls(foul_events, located_fouls) == Len(foul_events)

ShareDenominator(foul_events, located_fouls) == located_fouls

_extract_spatial_features(foul_events) ==
    LET s == SpatialLoop(foul_events, EmptySpatial)
        d == ShareDenominator(foul_events, s.located_fouls)
    IN  [raised |-> s.raised,
         foul_grid |-> s.grid,
         located_fouls |-> s.located_fouls,
         missing_location_fouls |-> Len(foul_events) - s.located_fouls]
        @@ (IF s.located_fouls > 0
            THEN [foul_share_def_third |-> Share(s.def_third_fouls, d),
                  foul_share_mid_third |-> Share(s.mid_third_fouls, d),
                  foul_share_att_third |-> Share(s.att_third_fouls, d),
                  foul_share_left |-> Share(s.left_fouls, d),
                  foul_share_center |-> Share(s.center_fouls, d),
                  foul_share_right |-> Share(s.right_fouls, d),
                  foul_share_wide |-> Share(s.left_fouls + s.right_fouls, d)]
            ELSE [foul_share_def_third |-> Share(20, 100),
                  foul_share_mid_third |-> Share(50, 100),
                  foul_share_att_third |-> Share(30, 100),
                  foul_share_left |-> Share(25, 100),
                  foul_share_center |-> Share(50, 100),
                  foul_share_right |-> Share(25, 100),
                  foul_share_wide |-> Share(50, 100)])

\* get_empty_discipline_features: the default feature values.
get_empty_discipline_features ==
    [fouls_committed |-> 0, yellows |-> 0, reds |-> 0, second_yellows |-> 0,
     fouls_per_opp_pass |-> Share(0, 1),
     foul_share_def_third |-> Share(20, 100),
     foul_share_mid_third |-> Share(50, 100),
     foul_share_att_third |-> Share(30, 100),
     foul_share_left |-> Share(25, 100),
     foul_share_center |-> Share(50, 100),
     foul_share_right |-> Share(25, 100),
     foul_share_wide |-> Share(50, 100),
     located_fouls |-> 0, missing_location_fouls |-> 0,
     foul_grid |-> [z \in Zones |-> 0]]

\* The feature variable before any call, and after a call that raised: no
\* feature map was returned (the fields are then placeholders).
NoFeatures == [status |-> NotCalled] @@ get_empty_discipline_features
RaisedFeatures == [status |-> Raised] @@ get_empty_discipline_features

extract_team_match_discipline(events_df, team_name, opponent_name, treatment) ==
    LET team_fouls == _extract_foul_events(events_df, team_name)
        spatial == _extract_spatial_features(team_fouls)
    IN  IF ~events_df.has_columns THEN RaisedFeatures    \* KeyError: 'team_name'
        ELSE IF spatial.raised THEN RaisedFeatures
        ELSE [status |-> Returned]
             @@ _extract_basic_counts(team_fouls, treatment)
             @@ _extract_rates(team_fouls, Len(opponent_passes(events_df, opponent_name)))
             @@ [k \in DOMAIN spatial \ {"raised"} |-> spatial[k]]

\* validate_discipline_features: the zone counts add up to located_fouls, the
\* third shares and the width shares each add up to 1 within 0.1, and the
\* counts are not negative.
validate_discipline_features(f) ==
    /\ SumOver(f.foul_grid, Zones) = f.located_fouls
    /\ SumWithinTenthOfOne(f.foul_share_def_third, f.foul_share_mid_third,
                           f.foul_share_att_third)
    /\ SumWithinTenthOfOne(f.foul_share_left, f.foul_share_center, f.foul_share_right)
    /\ \A k \in {"fouls_committed", "yellows", "reds", "located_fouls"} : f[k] >= 0

(***************************************************************************)
(* derive_archetype                                                        *)
(***************************************************************************)
PressingTags == {"Low Press", "Mid Press", "High Press", "Very High Press"}
BlockTags == {"Low Block", "Mid Block", "High Block"}
PossessDirTags == {"Possession-Based", "Balanced", "Direct"}
WidthTags == {"Wing Overload", "Central Focus", "Balanced Channels"}
TransitionTags ==
    {"Very High Transition", "High Transition", "Medium Transition", "Low Transition"}
OverlayTags ==
    {"Cross-Heavy", "Set-Piece Focus", "High Press Tactical Stops",
     "Central Leaning", "Sustained Low Block"}

\* The value under cat_overlays: a list, None, or no such key.
OverlayList(items) == [kind |-> "list", items |-> items]
NoOverlays(kind) == [kind |-> kind, items |-> <<>>]

\* The rows handed to derive_archetype: each axis tag may be a tag, None, the
\* empty string, absent, padded with blanks, or (cat_pressing) a float NaN.
TagRows ==
    [cat_pressing : PressingTags \cup {None, Missing, "", NaN},
     cat_block : BlockTags \cup {" High Block ", None, ""},
     cat_possess_dir : PossessDirTags \cup {Missing, ""},
     cat_width : WidthTags \cup {None},
     cat_transition : {"Very High Transition", "High Transition", "Low Transition", Missing},
     cat_overlays :
         {OverlayList(o) :
              o \in SeqsUpTo({"Cross-Heavy", "Set-Piece Focus", "Central Leaning"},
                             MaxOverlays)}
         \cup {NoOverlays(None), NoOverlays(Missing)}]

\* str.strip() of a string.
RECURSIVE LStrip(_)
LStrip(str) ==
    IF Len(str) > 0 /\ SubSeq(str, 1, 1) = " "
    THEN LStrip(SubSeq(str, 2, Len(str))) ELSE str

RECURSIVE RStrip(_)
RStrip(str) ==
    IF Len(str) > 0 /\ SubSeq(str, Len(str), Len(str)) = " "
    THEN RStrip(SubSeq(str, 1, Len(str) - 1)) ELSE str

Strip(str) == RStrip(LStrip(str))

\* row.get(key) or "": an absent key, None and "" give ""; a NaN is truthy and
\* stays.
GetNoDefault(r, key) == r[key]

GetOrEmpty(r, key) == IF r[key] \in {Missing, None, ""} THEN "" ELSE r[key]

\* (row.get(key) or "").strip() raises on a value that is no string.
StripRaises(v) == v \in {NaN, None, Missing}

\* row.get("cat_overlays") or []
OverlaysOrEmpty(r) ==
    IF r.cat_overlays.kind = "list" THEN r.cat_overlays.items ELSE <<>>

\* _has: tag in (overlays or [])
_hasFirstOnly(tag, overlays) == Len(overlays) > 0 /\ overlays[1] = tag

_has(tag, overlays) == \E i \in 1 .. Len(overlays) : overlays[i] = tag

\* if p == "Very High Press": p = "High Press"
KeepPressing(p) == p

NormalizePressing(p) == IF p = "Very High Press" THEN "High Press" ELSE p

\* The chain of if / elif over the cleaned tags.
CoreLabel(p, b, d, t) ==
    IF p = "Low Press" /\ b = "Low Block" /\ t = "High Transition"
    THEN "Low-Block Counter"
    ELSE IF p = "Low Press" /\ b = "Low Block"
    THEN "Low-Block Contain"
    ELSE IF p = "High Press" /\ b = "High Block" /\ d = "Possession-Based"
    THEN "High-Press Possession"
    ELSE IF p = "High Press" /\ b = "High Block"
            /\ (d = "Direct" \/ t = "High Transition")
    THEN "High-Press Direct"
    ELSE IF p = "Mid Press" /\ b = "Mid Block" /\ d = "Possession-Based"
    THEN "Mid-Block Possession"
    ELSE IF p = "Mid Press" /\ b = "Mid Block"
    THEN "Mid-Block Balanced"
    ELSE "Mid-Block Balanced"

\* The suffixes list, in the order of the three appends.
Suffixes(w, d, overlays) ==
    (IF w = "Wing Overload" /\ _has("Cross-Heavy", overlays)
     THEN <<"Wing Overload Crossers">> ELSE <<>>)
    \o (IF w = "Central Focus" /\ d = "Possession-Based"
        THEN <<"Central Combinational">> ELSE <<>>)
    \o (IF _has("Set-Piece Focus", overlays)
        THEN <<"Set-Piece Focus">> ELSE <<>>)

\* " + ".join(parts)
RECURSIVE JoinPlus(_)
JoinPlus(parts) ==
    IF Len(parts) = 0 THEN ""
    ELSE IF Len(parts) = 1 THEN parts[1]
    ELSE parts[1] \o " + " \o JoinPlus(Tail(parts))

\* core if not suffixes else f"{core} + " + " + ".join(suffixes)
ArchetypeText(core, suffixes) ==
    IF suffixes = <<>> THEN core ELSE core \o " + " \o JoinPlus(suffixes)

AxisKeys ==
    {"cat_pressing", "cat_block", "cat_possess_dir", "cat_width", "cat_transition"}

derive_archetype(r) ==
    IF \E k \in AxisKeys : StripRaises(GetOrEmpty(r, k)) THEN Raised
    ELSE LET p == NormalizePressing(Strip(GetOrEmpty(r, "cat_pressing")))
             b == Strip(GetOrEmpty(r, "cat_block"))
             d == Strip(GetOrEmpty(r, "cat_possess_dir"))
             w == Strip(GetOrEmpty(r, "cat_width"))
             t == Strip(GetOrEmpty(r, "cat_transition"))
         IN  ArchetypeText(CoreLabel(p, b, d, t), Suffixes(w, d, OverlaysOrEmpty(r)))

(***************************************************************************)
(* attach_style_tags and the categorizers.  A feature value is a number, a *)
(* float infinity or NaN, None, or absent from the row.  Shares and rates  *)
(* and ppda are in hundredths, block_height_x in tenths, fouls_committed a *)
(* count.                                                                  *)
(***************************************************************************)
Num(v) == [kind |-> "num", v |-> v]
Special(kind) == [kind |-> kind, v |-> 0]
Inf == Special("inf")
NaNValue == Special("nan")
NoneValue == Special("none")
Absent == Special("missing")

\* row.get(key, default)
GetDefault(r, key, default) == IF r[key].kind = "missing" THEN default ELSE r[key]

\* value is None or pd.isna(value): replace by the default
KeepValue(value, default) == value

OrDefault(value, default) == IF value.kind \in {"none", "nan"} THEN default ELSE value

\* Float comparisons with a constant; every comparison with a NaN is false,
\* +inf is above every constant.
Lt(a, n) == a.kind = "num" /\ a.v < n
LeStrict(a, n) == a.kind = "num" /\ a.v < n
Ge(a, n) == (a.kind = "num" /\ a.v >= n) \/ a.kind = "inf"
Le(a, n) == a.kind = "num" /\ a.v <= n

\* A comparison of None with a number raises TypeError, as does np.isinf(None).
IsNone(a) == a.kind = "none"

PriorityFlat(c) == 0

category_priority(c) ==
    CASE c = "very_high" -> 4 [] c = "high" -> 3 [] c = "mid" -> 2 [] c = "low" -> 1
      [] OTHER -> 0

categorize_pressing(r) ==
    LET ppda0 == GetDefault(r, "ppda", Inf)
        att_third_share == GetDefault(r, "def_share_att_third", Num(0))
        ppda == IF ppda0.kind = "inf" THEN Num(5000) ELSE ppda0
        ppda_category ==
            IF Lt(ppda, 800) THEN "very_high"
            ELSE IF Lt(ppda, 1200) THEN "high"
            ELSE IF Lt(ppda, 1800) THEN "mid"
            ELSE "low"
        att_third_category ==
            IF Ge(att_third_share, 40) THEN "very_high"
            ELSE IF Ge(att_third_share, 25) THEN "high"
            ELSE IF Ge(att_third_share, 15) THEN "mid"
            ELSE "low"
        \* max(a, b, key=...) returns the first of two equal maxima
        final_category ==
            IF category_priority(att_third_category) > category_priority(ppda_category)
            THEN att_third_category ELSE ppda_category
    IN  IF IsNone(ppda0) \/ IsNone(att_third_share) THEN Raised
        ELSE CASE final_category = "very_high" -> "Very High Press"
               [] final_category = "high" -> "High Press"
               [] final_category = "mid" -> "Mid Press"
               [] final_category = "low" -> "Low Press"
               [] OTHER -> "Mid Press"

categorize_block(r) ==
    LET block_height == OrDefault(GetDefault(r, "block_height_x", Num(600)), Num(600))
    IN  IF Ge(block_height, 700) THEN "High Block"
        ELSE IF Ge(block_height, 450) THEN "Mid Block"
        ELSE "Low Block"

categorize_possession_directness(r) ==
    LET possession == OrDefault(GetDefault(r, "possession_share", Num(50)), Num(50))
        directness == OrDefault(GetDefault(r, "directness", Num(50)), Num(50))
        possession_category ==
            IF Ge(possession, 55) THEN "possession_based"
            ELSE IF Ge(possession, 45) THEN "balanced"
            ELSE "direct"
        directness_category ==
            IF Ge(directness, 60) THEN "direct"
            ELSE IF Ge(directness, 40) THEN "balanced"
            ELSE "possession_based"
        final_category ==
            IF possession_category = "possession_based" /\ directness_category = "direct"
            THEN "balanced"
            ELSE IF possession_category = "direct"
                    /\ directness_category = "possession_based"
            THEN "balanced"
            ELSE possession_category
    IN  CASE final_category = "possession_based" -> "Possession-Based"
          [] final_category = "balanced" -> "Balanced"
          [] final_category = "direct" -> "Direct"
          [] OTHER -> "Balanced"

categorize_width(r) ==
    LET wing_share == OrDefault(GetDefault(r, "wing_share", Num(67)), Num(67))
        center_share == OrDefault(GetDefault(r, "lane_center_share", Num(33)), Num(33))
    IN  IF Ge(wing_share, 75) THEN "Wing Overload"
        ELSE IF Lt(wing_share, 60) /\ Ge(center_share, 30) THEN "Central Focus"
        ELSE "Balanced Channels"

categorize_transition(r) ==
    LET counter_rate == OrDefault(GetDefault(r, "counter_rate", Num(0)), Num(0))
    IN  IF Ge(counter_rate, 25) THEN "Very High Transition"
        ELSE IF Ge(counter_rate, 15) THEN "High Transition"
        ELSE IF Ge(counter_rate, 10) THEN "Medium Transition"
        ELSE "Low Transition"

categorize_overlays(r) ==
    LET cross_share == OrDefault(GetDefault(r, "cross_share", Num(5)), Num(5))
        fouls_committed == OrDefault(GetDefault(r, "fouls_committed", Num(15)), Num(15))
        foul_share_att_third ==
            OrDefault(GetDefault(r, "foul_share_att_third", Num(0)), Num(0))
        lane_center_share ==
            OrDefault(GetDefault(r, "lane_center_share", Num(33)), Num(33))
        foul_share_def_third ==
            OrDefault(GetDefault(r, "foul_share_def_third", Num(33)), Num(33))
    IN  (IF Ge(cross_share, 5) THEN <<"Cross-Heavy">> ELSE <<>>)
        \o (IF Le(fouls_committed, 9) THEN <<"Set-Piece Focus">> ELSE <<>>)
        \o (IF Ge(foul_share_att_third, 10) THEN <<"High Press Tactical Stops">> ELSE <<>>)
        \o (IF Ge(lane_center_share, 30) THEN <<"Central Leaning">> ELSE <<>>)
        \o (IF Ge(foul_share_def_third, 55) THEN <<"Sustained Low Block">> ELSE <<>>)

\* The tag columns of a categorized row, before any call and after a call
\* that raised (placeholders: no table was returned).
Tagged(status, p, b, d, w, t, o, a) ==
    [status |-> status, cat_pressing |-> p, cat_block |-> b, cat_possess_dir |-> d,
     cat_width |-> w, cat_transition |-> t, cat_overlays |-> o, style_archetype |-> a]

NoTags(status) == Tagged(status, "", "", "", "", "", <<>>, "")

\* attach_style_tags on a one-row table, then the style_archetype column the
\* callers add with derive_archetype.
attach_style_tags(r) ==
    IF categorize_pressing(r) = Raised THEN NoTags(Raised)
    ELSE LET tags == [cat_pressing |-> categorize_pressing(r),
                      cat_block |-> categorize_block(r),
                      cat_possess_dir |-> categorize_possession_directness(r),
                      cat_width |-> categorize_width(r),
                      cat_transition |-> categorize_transition(r),
                      cat_overlays |-> OverlayList(categorize_overlays(r))]
         IN  Tagged(Returned, tags.cat_pressing, tags.cat_block, tags.cat_possess_dir,
                    tags.cat_width, tags.cat_transition, tags.cat_overlays.items,
                    derive_archetype(tags))

\* df_tagged = df.copy(): the new columns go to the copy, the caller's table
\* keeps its columns and values.
TableTaggedInPlace(r) ==
    [k \in DOMAIN r \cup {"cat_pressing"} |->
        IF k \in DOMAIN r THEN r[k] ELSE Absent]

TableAfterTagging(r) == r

\* The feature rows handed to the categorization.
FeatureRows ==
    [ppda : {Num(500), Num(1000), Num(2000), Inf},
     def_share_att_third : {Num(10), Num(30), NoneValue},
     block_height_x : {Num(300), Num(500), Num(800), NaNValue},
     possession_share : {Num(40), Num(60)},
     directness : {Num(30), Num(70)},
     wing_share : {Num(50), Num(80)},
     lane_center_share : {Num(20), Num(40)},
     cross_share : {Num(2), Num(10), NaNValue},
     counter_rate : {Num(5), Num(12), Num(20), Num(30)},
     fouls_committed : {Num(5), Num(12)},
     foul_share_att_third : {Num(20), Absent},
     foul_share_def_third : {Num(30), Num(60)}]

IdleFeatureRow == [k \in {"ppda"} |-> Absent]

\* Feature rows around the thresholds of one categorizer at a time, the other
\* features at mid-range values.
MidFeatureRow ==
    [ppda |-> Num(2000), def_share_att_third |-> Num(10), block_height_x |-> Num(500),
     possession_share |-> Num(50), directness |-> Num(50), wing_share |-> Num(67),
     lane_center_share |-> Num(20), cross_share |-> Num(2), counter_rate |-> Num(5),
     fouls_committed |-> Num(12), foul_share_att_third |-> Num(5),
     foul_share_def_third |-> Num(30)]

PressingRows ==
    { [MidFeatureRow EXCEPT !.ppda = a, !.def_share_att_third = b] :
        a \in {Num(799), Num(800), Num(1199), Num(1200), Num(1799), Num(1800),
               Inf, NaNValue, Absent, NoneValue},
        b \in {Num(14), Num(15), Num(24), Num(25), Num(39), Num(40),
               NaNValue, Absent, NoneValue} }

PossessionRows ==
    { [MidFeatureRow EXCEPT !.possession_share = a, !.directness = b] :
        a \in {Num(44), Num(45), Num(54), Num(55), NaNValue, NoneValue, Absent},
        b \in {Num(39), Num(40), Num(59), Num(60), NaNValue, NoneValue, Absent} }

OverlayRows ==
    { [MidFeatureRow EXCEPT !.cross_share = a, !.fouls_committed = b,
                            !.foul_share_att_third = c, !.lane_center_share = d,
                            !.foul_share_def_third = f] :
        a \in {Num(4), Num(5), NaNValue}, b \in {Num(9), Num(10), Absent},
        c \in {Num(9), Num(10), NoneValue}, d \in {Num(29), Num(30), Absent},
        f \in {Num(54), Num(55), NaNValue} }

ThresholdRows == PressingRows \cup PossessionRows \cup OverlayRows

(***************************************************************************)
(* PlaystyleFeatureExtractor.  Every numeric feature is kept as the pair   *)
(* numerator / denominator the code divides; lengths and coordinates are   *)
(* in tenths, expected goals in hundredths.                                *)
(***************************************************************************)
long_pass_threshold == 300

\* float('inf')
Infinity == Share(1, 0)

\* An event row with every column of the flattened table.
BaseEvent ==
    [event_type_name |-> "Pass", team_name |-> "Team A", location |-> NoLocation,
     foul_card |-> None, card_type |-> None,
     pass_end_location |-> NoLocation, pass_length |-> NaNValue,
     possession |-> NaNValue, possession_team_name |-> "Team A",
     pass_cross |-> FALSE, pass_through_ball |-> FALSE,
     play_pattern_name |-> "Regular Play", shot_statsbomb_xg |-> NaNValue]

\* The events a match's table is built from, for both extractors.
MatchEvents ==
    { [BaseEvent EXCEPT !.location = Loc(300, 200), !.pass_end_location = Loc(330, 240),
                        !.pass_length = Num(50), !.possession = Num(1),
                        !.pass_through_ball = TRUE],
      [BaseEvent EXCEPT !.location = Loc(600, 400), !.pass_end_location = Loc(200, 400),
                        !.pass_length = Num(400), !.possession = Num(1),
                        !.pass_cross = TRUE, !.play_pattern_name = "From Counter"],
      [BaseEvent EXCEPT !.location = Loc(900, 800), !.pass_end_location = Loc(1200, 800),
                        !.pass_length = Num(300), !.possession = Num(2),
                        !.possession_team_name = "Team B"],
      [BaseEvent EXCEPT !.location = ShortLocation, !.pass_cross = TRUE],
      BaseEvent,
      [BaseEvent EXCEPT !.event_type_name = "Pressure", !.location = Loc(900, 100),
                        !.possession = Num(2), !.play_pattern_name = "From Counter"],
      [BaseEvent EXCEPT !.event_type_name = "Tackle", !.location = Loc(1300, 900)],
      [BaseEvent EXCEPT !.event_type_name = "Duel", !.location = Loc(100, 300)],
      [BaseEvent EXCEPT !.event_type_name = "Shot", !.location = Loc(1100, 400),
                        !.possession = Num(1), !.shot_statsbomb_xg = Num(25)],
      [BaseEvent EXCEPT !.event_type_name = "Foul Committed", !.location = Loc(-10, 810),
                        !.foul_card = "Second Yellow"],
      [BaseEvent EXCEPT !.team_name = "Team B", !.location = Loc(500, 600),
                        !.possession = Num(2), !.possession_team_name = "Team B"],
      [BaseEvent EXCEPT !.team_name = "Team B", !.event_type_name = "Pressure",
                        !.location = Loc(700, 300)] }

MatchTables ==
    {EventsTable(r) : r \in SeqsUpTo(MatchEvents, MaxEvents)} \cup {NoColumnsTable}

RECURSIVE SumInts(_)
SumInts(s) == IF s = <<>> THEN 0 ELSE Head(s) + SumInts(Tail(s))

\* math.sqrt of a perfect square.
Sqrt(n) == CHOOSE r \in 0 .. n : r * r = n

IsPass(e) == e.event_type_name = "Pass"

\* _extract_pressing_features
_extract_pressing_features(team_events, opponent_events) ==
    LET defensive_actions ==
            SelectSeq(team_events,
                      LAMBDA e : e.event_type_name
                                   \in {"Pressure", "Tackle", "Interception", "Duel"})
        opp_passes == SelectSeq(opponent_events, IsPass)
        located == SelectSeq(defensive_actions, HasLocation)
        x_positions == [i \in 1 .. Len(located) |-> located[i].location.list[1]]
        def_third_actions ==
            Len(SelectSeq(located, LAMBDA e : 0 <= e.location.list[1]
                                              /\ e.location.list[1] < 400))
        mid_third_actions ==
            Len(SelectSeq(located, LAMBDA e : 400 <= e.location.list[1]
                                              /\ e.location.list[1] < 800))
        att_third_actions ==
            Len(SelectSeq(located, LAMBDA e : 800 <= e.location.list[1]
                                              /\ e.location.list[1] <= 1200))
        total_def_actions == def_third_actions + mid_third_actions + att_third_actions
    IN  [ppda |-> IF Len(defensive_actions) > 0
                  THEN Share(Len(opp_passes), Len(defensive_actions)) ELSE Infinity,
         block_height_x |-> IF Len(x_positions) > 0
                            THEN Share(SumInts(x_positions), Len(x_positions))
                            ELSE Share(600, 1),
         def_share_def_third |-> IF total_def_actions > 0
                                 THEN Share(def_third_actions, total_def_actions)
                                 ELSE Share(33, 100),
         def_share_mid_third |-> IF total_def_actions > 0
                                 THEN Share(mid_third_actions, total_def_actions)
                                 ELSE Share(33, 100),
         def_share_att_third |-> IF total_def_actions > 0
                                 THEN Share(att_third_actions, total_def_actions)
                                 ELSE Share(33, 100)]

\* Both location and pass_end_location are lists of two coordinates.
HasPassGeometry(e) == HasLocation(e) /\ Len(e.pass_end_location.list) >= 2

\* _calculate_possession_directness: None (den = 0 here), or forward gain
\* over distance.
NoDirectness == Share(0, 0)

_calculate_possession_directness(possession_passes) ==
    IF Len(possession_passes) < 2 THEN NoDirectness
    ELSE LET geo == SelectSeq(possession_passes, HasPassGeometry)
             dx(i) == geo[i].pass_end_location.list[1] - geo[i].location.list[1]
             dy(i) == geo[i].pass_end_location.list[2] - geo[i].location.list[2]
             total_forward_gain == SumInts([i \in 1 .. Len(geo) |-> Max(0, dx(i))])
             total_pass_distance ==
                 SumInts([i \in 1 .. Len(geo) |-> Sqrt(dx(i) * dx(i) + dy(i) * dy(i))])
         IN  IF total_pass_distance > 0
             THEN Share(total_forward_gain, total_pass_distance)
             ELSE NoDirectness

\* np.mean of the directness scores of the possessions ids: the sum of the
\* scores as one fraction, and how many there are.
RECURSIVE SumDirectness(_, _, _)
SumDirectness(ids, team_passes, acc) ==
    IF ids = {} THEN acc
    ELSE LET id == CHOOSE i \in ids : \A j \in ids : i <= j
             poss_passes == SelectSeq(team_passes, LAMBDA e : e.possession = Num(id))
             d == _calculate_possession_directness(poss_passes)
             next == IF d.den = 0 THEN acc
                     ELSE [num |-> acc.num * d.den + d.num * acc.den,
                           den |-> acc.den * d.den, n |-> acc.n + 1]
         IN  SumDirectness(ids \ {id}, team_passes, next)

\* _extract_possession_features
_extract_possession_features(team_events, all_events, team_name) ==
    LET team_passes == SelectSeq(team_events, IsPass)
        all_passes == SelectSeq(all_events, IsPass)
        team_possessions ==
            SelectSeq(team_events,
                      LAMBDA e : e.possession_team_name = team_name
                                 /\ e.possession.kind = "num")
        possession_ids ==
            {team_possessions[i].possession.v : i \in 1 .. Len(team_possessions)}
        with_length == SelectSeq(team_passes, LAMBDA e : e.pass_length.kind = "num")
        pass_lengths == [i \in 1 .. Len(with_length) |-> with_length[i].pass_length.v]
        long_passes ==
            Len(SelectSeq(with_length, LAMBDA e : e.pass_length.v >= long_pass_threshold))
        forward_passes ==
            Len(SelectSeq(team_passes,
                          LAMBDA e : HasPassGeometry(e)
                                     /\ e.pass_end_location.list[1] > e.location.list[1]))
        pass_ids ==
            {team_passes[i].possession.v :
                 i \in {j \in 1 .. Len(team_passes) : team_passes[j].possession.kind = "num"}}
        scores == SumDirectness(pass_ids, team_passes, [num |-> 0, den |-> 1, n |-> 0])
    IN  [possession_share |-> IF Len(all_passes) > 0
                              THEN Share(Len(team_passes), Len(all_passes))
                              ELSE Share(50, 100),
         passes_per_possession |-> IF possession_ids # {}
                                   THEN Share(Len(team_possessions),
                                              Cardinality(possession_ids))
                                   ELSE Share(0, 1),
         avg_pass_length |-> IF Len(team_passes) > 0 /\ Len(pass_lengths) > 0
                             THEN Share(SumInts(pass_lengths), Len(pass_lengths))
                             ELSE Share(150, 1),
         long_pass_share |-> IF Len(team_passes) > 0 /\ Len(pass_lengths) > 0
                             THEN Share(long_passes, Len(team_passes))
                             ELSE Share(10, 100),
         forward_pass_share |-> IF Len(team_passes) > 0
                                THEN Share(forward_passes, Len(team_passes))
                                ELSE Share(50, 100),
         directness |-> IF Len(team_passes) > 0 /\ scores.n > 0
                        THEN Share(scores.num, scores.den * scores.n)
                        ELSE Share(50, 100)]

\* The denominator of cross_share and through_ball_share.
CrossDenominatorChannelPasses(passes_with_location, total_channel_passes) ==
    Max(total_channel_passes, 1)

CrossDenominator(passes_with_location, total_channel_passes) ==
    Len(passes_with_location)

\* _extract_channels_features; the channel bounds 26.67 and 53.33 are compared
\* in hundredths.
_extract_channels_features(team_events) ==
    LET passes_with_location ==
            SelectSeq(team_events, LAMBDA e : IsPass(e) /\ e.location # NoLocation)
        in_channel == SelectSeq(passes_with_location, HasLocation)
        y(e) == 10 * e.location.list[2]
        left_passes == Len(SelectSeq(in_channel, LAMBDA e : 0 <= y(e) /\ y(e) < 2667))
        center_passes ==
            Len(SelectSeq(in_channel, LAMBDA e : 2667 <= y(e) /\ y(e) < 5333))
        right_passes ==
            Len(SelectSeq(in_channel, LAMBDA e : 5333 <= y(e) /\ y(e) <= 8000))
        crosses == Len(SelectSeq(passes_with_location, LAMBDA e : e.pass_cross))
        through_balls ==
            Len(SelectSeq(passes_with_location, LAMBDA e : e.pass_through_ball))
        total_channel_passes == left_passes + center_passes + right_passes
        total_passes == CrossDenominator(passes_with_location, total_channel_passes)
    IN  IF Len(passes_with_location) > 0
        THEN (IF total_channel_passes > 0
              THEN [lane_left_share |-> Share(left_passes, total_channel_passes),
                    lane_center_share |-> Share(center_passes, total_channel_passes),
                    lane_right_share |-> Share(right_passes, total_channel_passes),
                    wing_share |-> Share(left_passes + right_passes,
                                         total_channel_passes)]
              ELSE [lane_left_share |-> Share(33, 100),
                    lane_center_share |-> Share(33, 100),
                    lane_right_share |-> Share(33, 100),
                    wing_share |-> Share(67, 100)])
             @@ [cross_share |-> Share(crosses, total_passes),
                 through_ball_share |-> Share(through_balls, total_passes)]
        ELSE [lane_left_share |-> Share(33, 100), lane_center_share |-> Share(33, 100),
              lane_right_share |-> Share(33, 100), wing_share |-> Share(67, 100),
              cross_share |-> Share(5, 100), through_ball_share |-> Share(2, 100)]

\* _extract_transition_features
_extract_transition_features(team_events) ==
    LET team_possessions ==
            {team_events[i].possession.v :
                 i \in {j \in 1 .. Len(team_events) : team_events[j].possession.kind = "num"}}
        counter_actions ==
            Len(SelectSeq(team_events, LAMBDA e : e.play_pattern_name \in {"From Counter"}))
    IN  [counter_rate |-> IF team_possessions # {}
                          THEN Share(counter_actions, Cardinality(team_possessions))
                          ELSE Share(0, 1)]

\* _extract_shot_features
_extract_shot_features(team_events) ==
    LET shots == SelectSeq(team_events, LAMBDA e : e.event_type_name = "Shot")
        with_xg == SelectSeq(shots, LAMBDA e : e.shot_statsbomb_xg.kind = "num")
        xg_values == [i \in 1 .. Len(with_xg) |-> with_xg[i].shot_statsbomb_xg.v]
        team_passes == SelectSeq(team_events, IsPass)
    IN  IF Len(shots) > 0
        THEN [xg_mean |-> IF Len(xg_values) > 0
                          THEN Share(SumInts(xg_values), Len(xg_values)) ELSE Share(0, 1),
              passes_to_shot |-> IF Len(team_passes) > 0
                                 THEN Share(Len(team_passes), Len(shots))
                                 ELSE Share(10, 1)]
        ELSE [xg_mean |-> Share(0, 1), passes_to_shot |-> Share(0, 1)]

\* _get_empty_features: the default feature values.
_get_empty_features ==
    [ppda |-> Infinity, block_height_x |-> Share(600, 1),
     def_share_def_third |-> Share(33, 100), def_share_mid_third |-> Share(33, 100),
     def_share_att_third |-> Share(33, 100),
     possession_share |-> Share(50, 100), passes_per_possession |-> Share(0, 1),
     directness |-> Share(50, 100), avg_pass_length |-> Share(150, 1),
     long_pass_share |-> Share(10, 100), forward_pass_share |-> Share(50, 100),
     lane_left_share |-> Share(33, 100), lane_center_share |-> Share(33, 100),
     lane_right_share |-> Share(33, 100), wing_share |-> Share(67, 100),
     cross_share |-> Share(5, 100), through_ball_share |-> Share(2, 100),
     counter_rate |-> Share(0, 1),
     xg_mean |-> Share(0, 1), passes_to_shot |-> Share(0, 1)]

\* The feature variable before any call, and after a call that raised: no
\* feature map was returned (the fields are then placeholders).
NoStyleFeatures(status) == [status |-> status] @@ _get_empty_features

extract_team_match_features(events_df, team_name, opponent_name) ==
    LET team_events == SelectSeq(events_df.rows, LAMBDA e : e.team_name = team_name)
        opponent_events ==
            SelectSeq(events_df.rows, LAMBDA e : e.team_name = opponent_name)
    IN  IF ~events_df.has_columns THEN NoStyleFeatures(Raised)  \* KeyError: 'team_name'
        ELSE IF team_events = <<>> THEN [status |-> Returned] @@ _get_empty_features
        ELSE [status |-> Returned]
             @@ _extract_pressing_features(team_events, opponent_events)
             @@ _extract_possession_features(team_events, events_df.rows, team_name)
             @@ _extract_channels_features(team_events)
             @@ _extract_transition_features(team_events)
             @@ _extract_shot_features(team_events)

\* validate_features: the shares lie in [0, 1], the rates are not negative,
\* block_height_x lies on the pitch.
validate_features(f) ==
    /\ \A k \in {"possession_share", "def_share_def_third", "def_share_mid_third",
                 "def_share_att_third", "lane_left_share", "lane_center_share",
                 "lane_right_share", "directness", "forward_pass_share",
                 "long_pass_share", "cross_share", "through_ball_share"} :
           0 <= f[k].num /\ f[k].num <= f[k].den
    /\ \A k \in {"counter_rate", "ppda", "passes_per_possession", "avg_pass_length",
                 "xg_mean", "passes_to_shot"} : f[k].num >= 0
    /\ 0 <= f.block_height_x.num
    /\ f.block_height_x.num <= field_length * f.block_height_x.den

\* ---- the dataset builder and the real-time analyzer: both run the two
\* extractors on a match's events and hand the feature row on, or return None.
Handoff(by, status) == [by |-> by, status |-> status]

\* TeamMatchDatasetBuilder._extract_team_match_features stops before the
\* discipline extraction when the playstyle extraction raised or its features
\* fail validate_features.
BuilderStops(playstyle) == playstyle.status = Raised \/ ~validate_features(playstyle)

\* What the builder returns: None when an extractor raised or a validation
\* failed, else the row for the dataset.
BuilderHandoff(playstyle, discipline) ==
    IF BuilderStops(playstyle) THEN Handoff("builder", None)
    ELSE IF discipline.status = Raised \/ ~validate_discipline_features(discipline)
    THEN Handoff("builder", None)
    ELSE Handoff("builder", Returned)

\* RealtimeTacticalAnalyzer._analyze_team_tactics: None when an extractor
\* raised, else the row is categorized and the team's profile returned.
AnalyzerHandoff(playstyle, discipline) ==
    IF playstyle.status = Raised \/ discipline.status = Raised
    THEN Handoff("realtime", None)
    ELSE Handoff("realtime", Returned)

(***************************************************************************)
(* ZoneNBModeler.  The prepared table is kept as what decides a fit: each  *)
(* zone's response total, and what the GLM solver does on the zone's       *)
(* response with the table's design matrix.                                *)
(***************************************************************************)
min_zone_events == 3

\* for x in range(self.x_bins): for y in range(self.y_bins)
ZoneOrder ==
    [i \in 1 .. x_bins * y_bins |-> << (i - 1) \div y_bins, (i - 1) % y_bins >>]

\* What smf.glm(...).fit() does: a converged model, a model that did not
\* converge, an exception, or a converged model whose AIC is NaN or infinite.
SolverOutcomes == {"ok", "not_converged", "raises", "nan_aic", "inf_aic"}

\* A zone that deviates from a fitted zone: too few events, or a solver
\* outcome other than "ok".
Deviations == {"sparse"} \cup (SolverOutcomes \ {"ok"})

Table(deviation) ==
    [zone_total |-> [z \in Zones |->
                        IF z \in DOMAIN deviation /\ deviation[z] = "sparse"
                        THEN min_zone_events - 1 ELSE min_zone_events],
     solver |-> [z \in Zones |->
                    IF z \in DOMAIN deviation /\ deviation[z] # "sparse"
                    THEN deviation[z] ELSE "ok"]]

\* The zones a deviation is drawn for: the first and the last zone of the
\* loop, and zones of the rows between them.
DeviatingZones == {<<0, 0>>, <<0, 1>>, <<2, 1>>, <<3, 0>>, <<4, 1>>, <<4, 2>>}

\* The prepared tables: at most MaxBadZones zones deviate.
Tables ==
    { Table(dv) : dv \in UNION { [B -> Deviations] :
                      B \in {S \in SUBSET DeviatingZones : Cardinality(S) <= MaxBadZones} } }

NoModels == [z \in {} |-> 0]

\* The feature lists of a call against the table's columns: every base
\* feature of feature_list is a column (or one is not), every z_<feature> of
\* interaction_features is a column (or one is not).
FitArgs == [base_present : BOOLEAN, interaction_present : BOOLEAN]

\* fixed_part: the interaction terms are those whose column the table has.
FormulaTerms(args) ==
    IF args.interaction_present THEN "base + home + referee + interaction"
    ELSE "base + home + referee"

\* total_events < self.min_zone_events
TooFewEventsBelowOnly(total_events) == total_events < min_zone_events - 1

TooFewEvents(total_events) == total_events < min_zone_events

\* _fit_single_zone_model: None, or the fitted model.
NoModel == [fitted |-> FALSE, converged |-> FALSE, aic |-> "", terms |-> ""]
Model(aic, terms) == [fitted |-> TRUE, converged |-> TRUE, aic |-> aic, terms |-> terms]

\* _fit_single_zone_model without the convergence check.
FitKeepingUnconverged(tbl, z, args) ==
    IF TooFewEvents(tbl.zone_total[z]) THEN NoModel
    ELSE IF ~args.base_present THEN NoModel
    ELSE IF tbl.solver[z] = "raises" THEN NoModel
    ELSE IF tbl.solver[z] = "not_converged"
    THEN [fitted |-> TRUE, converged |-> FALSE, aic |-> "finite",
          terms |-> FormulaTerms(args)]
    ELSE IF tbl.solver[z] = "nan_aic" THEN NoModel
    ELSE IF tbl.solver[z] = "inf_aic" THEN Model("inf", FormulaTerms(args))
    ELSE Model("finite", FormulaTerms(args))

_fit_single_zone_model(tbl, z, args) ==
    IF TooFewEvents(tbl.zone_total[z]) THEN NoModel
    ELSE IF ~args.base_present THEN NoModel         \* patsy raises, caught
    ELSE IF tbl.solver[z] = "raises" THEN NoModel            \* except Exception
    ELSE IF tbl.solver[z] = "not_converged" THEN NoModel     \* not model.converged
    ELSE IF tbl.solver[z] = "nan_aic" THEN NoModel           \* np.isnan(model.aic)
    ELSE IF tbl.solver[z] = "inf_aic" THEN Model("inf", FormulaTerms(args))
    ELSE Model("finite", FormulaTerms(args))

\* _extract_model_summary
_extract_model_summary(model, zone_id) ==
    [zone_id |-> zone_id, aic |-> model.aic, converged |-> model.converged,
     coefficients |-> [kind |-> "dict", names |-> model.terms]]

\* What a zone whose fit gave no model does to the loop: logged, the loop
\* goes on with the next zone.
StopAtFailedZone(acc) == [acc EXCEPT !.raised = TRUE]

AfterFailedZone(acc) == acc

\* The loop over the zones, from zone i of ZoneOrder on.
RECURSIVE FitLoop(_, _, _, _)
FitLoop(tbl, args, i, acc) ==
    IF i > Len(ZoneOrder) \/ acc.raised THEN acc
    ELSE LET z == ZoneOrder[i]
             model_result == _fit_single_zone_model(tbl, z, args)
             next ==
                 IF model_result.fitted
                 THEN [acc EXCEPT
                          !.fitted_models = (z :> model_result) @@ @,
                          !.model_summaries =
                              (z :> _extract_model_summary(model_result, z)) @@ @]
                 ELSE IF TooFewEvents(tbl.zone_total[z]) THEN acc
                 ELSE AfterFailedZone(acc)
         IN  FitLoop(tbl, args, i + 1, next)

\* fit_zone_nb_models: both maps are reset, then filled zone by zone.
fit_zone_nb_models(tbl, args) ==
    FitLoop(tbl, args, 1,
            [fitted_models |-> NoModels, model_summaries |-> NoModels, raised |-> FALSE])

\* predict_expected_fouls: one entry per fitted model, the model's prediction
\* or, when model.predict raises on the row, 0.0.
NoPredictions(status) == [status |-> status, by_zone |-> NoModels]

PredictEveryZone(models, row_ok) ==
    [status |-> Returned,
     by_zone |-> [z \in Zones |->
                    IF z \in DOMAIN models /\ row_ok THEN "predicted" ELSE "zero"]]

predict_expected_fouls(models, row_ok) ==
    IF DOMAIN models = {} THEN NoPredictions(Raised)    \* ValueError
    ELSE [status |-> Returned,
          by_zone |-> [z \in DOMAIN models |-> IF row_ok THEN "predicted" ELSE "zero"]]

\* ---- the discipline specification: a match table, then the extraction.

IdleRow ==
    [cat_pressing |-> Missing, cat_block |-> Missing, cat_possess_dir |-> Missing,
     cat_width |-> Missing, cat_transition |-> Missing,
     cat_overlays |-> NoOverlays(Missing)]

InitIdleArch == row = IdleRow /\ archetype = NotCalled
InitIdleCat ==
    /\ df = IdleFeatureRow
    /\ df_given = IdleFeatureRow
    /\ df_tagged = NoTags(NotCalled)
    /\ df_tagged_prev = NoTags(NotCalled)
\* ---- coefficient names.  A name is the sequence of its pieces: the pieces
\* the formula contributes ('z_directness', ':', 'C(referee_name)', '[T.',
\* ']') are one element each, a referee's name is one element per character.
alpha == 5

InteractionFeatures == {"directness", "ppda"}

ZName(feature) == IF feature = "directness" THEN "z_directness" ELSE "z_ppda"

\* The characters a referee's name is made of here.
RefereeChars == {"a", "]", "[", ":"}

RefereeNames == SeqsUpTo(RefereeChars, MaxRefereeLen) \ {<<>>}

\* C(referee_name)[T.<referee>]
RefereeDummy(referee) == <<"C(referee_name)", "[T.">> \o referee \o <<"]">>

\* z_<feature>:C(referee_name)[T.<referee>]
InteractionName(feature, referee) == <<ZName(feature), ":">> \o RefereeDummy(referee)

\* The p-values of a coefficient, in hundredths.
PValues == {alpha - 1, alpha, alpha + 1}

NoCoefficient == [kind |-> "", feature |-> "", referee |-> <<>>, name |-> <<>>, pvalue |-> 0]

\* model.params.index with its p-values: the intercept, the base features,
\* the home control, the referee dummies and the interaction terms.
Coefficients ==
    { [kind |-> "plain", feature |-> "", referee |-> <<>>, name |-> <<n>>, pvalue |-> pv] :
          n \in {"Intercept", "home_indicator", "z_directness", "z_ppda"}, pv \in PValues }
    \cup { [kind |-> "referee", feature |-> "", referee |-> r, name |-> RefereeDummy(r),
            pvalue |-> pv] : r \in RefereeNames, pv \in PValues }
    \cup { [kind |-> "interaction", feature |-> f, referee |-> r,
            name |-> InteractionName(f, r), pvalue |-> pv] :
              f \in InteractionFeatures, r \in RefereeNames, pv \in PValues }

\* sub occurs in str at position i
OccursAt(str, sub, i) ==
    /\ i + Len(sub) - 1 <= Len(str)
    /\ \A k \in 1 .. Len(sub) : str[i + k - 1] = sub[k]

\* sub in str
Contains(str, sub) == \E i \in 1 .. Len(str) : OccursAt(str, sub, i)

\* str.split(sep)[-1]: what follows the last of the occurrences of sep found
\* from the left, the whole of str when there is none.
RECURSIVE SplitLastFrom(_, _, _, _)
SplitLastFrom(str, sep, i, start) ==
    IF i > Len(str) THEN SubSeq(str, start, Len(str))
    ELSE IF OccursAt(str, sep, i)
    THEN SplitLastFrom(str, sep, i + Len(sep), i + Len(sep))
    ELSE SplitLastFrom(str, sep, i + 1, start)

SplitLast(str, sep) == SplitLastFrom(str, sep, 1, 1)

\* str.rstrip(ch): every trailing ch is removed.
RECURSIVE rstrip(_, _)
rstrip(str, ch) ==
    IF str # <<>> /\ str[Len(str)] = ch THEN rstrip(SubSeq(str, 1, Len(str) - 1), ch)
    ELSE str

NotParsed ==
    [op |-> "", feature |-> "", accepted |-> FALSE, referee_name |-> <<>>,
     significant |-> FALSE]

\* if f'{z_feature}:C(referee_name)' in param_name
SlopeAccepts(feature, param_name) ==
    Contains(param_name, <<ZName(feature), ":", "C(referee_name)">>)

\* The body of the loop of extract_referee_slopes for one coefficient: the
\* slope record, when the name is taken for an interaction of the feature.
slope_data(feature, coef) ==
    IF ~SlopeAccepts(feature, coef.name)
    THEN [NotParsed EXCEPT !.op = "slopes", !.feature = feature]
    ELSE [op |-> "slopes", feature |-> feature, accepted |-> TRUE,
          referee_name |->
              rstrip(SplitLast(coef.name,
                               <<ZName(feature), ":", "C(referee_name)", "[T.">>), "]"),
          significant |-> coef.pvalue < alpha]

\* 'C(referee_name)[T.' in param_name
HasRefereeDummy(param_name) == Contains(param_name, <<"C(referee_name)", "[T.">>)

\* if 'C(referee_name)[T.' in param_name and ']:' not in param_name
EffectAccepts(param_name) ==
    HasRefereeDummy(param_name) /\ ~Contains(param_name, <<"]", ":">>)

\* The body of the loop of calculate_referee_effects for one coefficient.
effect_data(coef) ==
    IF ~EffectAccepts(coef.name) THEN [NotParsed EXCEPT !.op = "effects"]
    ELSE [op |-> "effects", feature |-> "", accepted |-> TRUE,
          referee_name |->
              rstrip(SplitLast(coef.name, <<"C(referee_name)", "[T.">>), "]"),
          significant |-> coef.pvalue < alpha]

\* The coefficient names of a fitted model, one referee standing for all.
ParamNames(model) ==
    {<<"Intercept">>, <<"z_directness">>, <<"z_ppda">>, <<"home_indicator">>,
     RefereeDummy(<<"a">>)}
    \cup (IF model.terms = "base + home + referee + interaction"
          THEN {InteractionName(f, <<"a">>) : f \in InteractionFeatures} ELSE {})

HasInteraction(model) ==
    \E n \in ParamNames(model) : SlopeAccepts("directness", n)

\* What a coefficient name is: a referee dummy, or a term with a ':'.
TermKind(param_name) == IF Contains(param_name, <<":">>) THEN "interaction" ELSE "referee"

NoQuery == [op |-> "", status |-> NotCalled, rows |-> {}]

\* extract_referee_slopes returning an empty frame whatever the modeler holds.
SlopesOfNoModels(models, feature_fitted) ==
    [op |-> "slopes", status |-> Returned, rows |-> {}]

\* extract_referee_slopes: ValueError without models; else one row per
\* interaction coefficient of the feature, here the zones that have one.
extract_referee_slopes(models, feature_fitted) ==
    IF DOMAIN models = {} THEN [op |-> "slopes", status |-> Raised, rows |-> {}]
    ELSE [op |-> "slopes", status |-> Returned,
          rows |-> {<<z, "interaction">> :
                        z \in {c \in DOMAIN models :
                                   feature_fitted /\ HasInteraction(models[c])}}]

\* calculate_referee_effects: ValueError without models; else one row per
\* coefficient whose name holds 'C(referee_name)[T.' and no ']:'.
calculate_referee_effects(models) ==
    IF DOMAIN models = {} THEN [op |-> "effects", status |-> Raised, rows |-> {}]
    ELSE [op |-> "effects", status |-> Returned,
          rows |-> {zk \in (DOMAIN models) \X {"referee", "interaction"} :
                       \E n \in ParamNames(models[zk[1]]) :
                           EffectAccepts(n) /\ TermKind(n) = zk[2]}]

\* The model directory: the zone pickles, model_summaries.csv and the
\* referee_slopes_<feature>.csv files.
NoCsv == [exists |-> FALSE, rows |-> NoModels]
EmptyDir == [pkl |-> NoModels, csv |-> NoCsv, slopes |-> {}]

\* A summary as DataFrame.to_csv writes it and read_csv reads it back: the
\* scalars as they were, the coefficients dict as the text of its repr.
CsvRow(summary) == [summary EXCEPT !.coefficients.kind = "text"]

\* save_models: one pickle per fitted zone, the summaries when there are any,
\* the slopes when there are any; files already there and not written stay.
save_models(dir, models, summaries) ==
    [pkl |-> models @@ dir.pkl,
     csv |-> IF DOMAIN summaries # {}
             THEN [exists |-> TRUE,
                   rows |-> [z \in DOMAIN summaries |-> CsvRow(summaries[z])]]
             ELSE dir.csv,
     slopes |-> LET rows == extract_referee_slopes(models, TRUE).rows
                IN  IF rows # {} THEN rows ELSE dir.slopes]

\* load_models: fitted_models is reset and filled from the zone pickles;
\* model_summaries is replaced when model_summaries.csv exists.
load_models(dir, summaries) ==
    [fitted_models |-> [z \in DOMAIN dir.pkl \cap Zones |-> dir.pkl[z]],
     model_summaries |-> IF dir.csv.exists THEN dir.csv.rows ELSE summaries]

\* get_model_diagnostics: {} without models; the feature significance reads
\* coefficients.get(...) of every summary, which a str does not have.
get_model_diagnostics(models, summaries) ==
    IF DOMAIN models = {}
    THEN [status |-> Returned, total_models |-> 0, zones_analyzed |-> {},
          converged |-> 0, terms |-> {}]
    ELSE IF \E z \in DOMAIN summaries : summaries[z].coefficients.kind # "dict"
    THEN [status |-> Raised, total_models |-> 0, zones_analyzed |-> {},
          converged |-> 0, terms |-> {}]
    ELSE [status |-> Returned,
          total_models |-> Cardinality(DOMAIN models),
          zones_analyzed |-> DOMAIN models,
          converged |-> Cardinality({z \in DOMAIN models : models[z].converged}),
          terms |-> {summaries[z].coefficients.names : z \in DOMAIN summaries}]

NotSaved == [status |-> NotCalled, into_empty |-> FALSE,
             fitted_models |-> NoModels, model_summaries |-> NoModels]

\* The tables of the persistence runs.
PersistTables ==
    { Table(dv) : dv \in UNION { [B -> {"sparse", "raises"}] :
                                    B \in SUBSET {<<0, 0>>, <<4, 2>>} } }

\* ZoneNBModeler.__init__: no models, no summaries.
InitModeler ==
    /\ fitted_models = NoModels
    /\ model_summaries = NoModels
    /\ fit_args = [base_present |-> TRUE, interaction_present |-> TRUE]
    /\ fit_outcome = NotCalled
    /\ predictions = NoPredictions(NotCalled)
    /\ query = NoQuery
    /\ disk = EmptyDir
    /\ saved = NotSaved
    /\ last_op = "new"

InitIdleFit == table = Table(NoModels) /\ InitModeler
InitIdleDisc ==
    card_treatment = "separate" /\ events = EventsTable(<<>>) /\ features = NoFeatures

InitIdleStyle == style_features = NoStyleFeatures(NotCalled)
InitIdleZone == location = <<0, 0>> /\ zone = NoZone
InitIdleName == coefficient = NoCoefficient /\ parsed = NotParsed
NoHandoff == [by |-> "", status |-> NotCalled]
InitIdlePipe == handoff = NoHandoff

InitDiscipline ==
    /\ card_treatment \in {"separate", "red_only"}
    /\ events \in EventTables
    /\ features = NoFeatures
    /\ InitIdleStyle /\ InitIdleZone /\ InitIdleName /\ InitIdlePipe
    /\ InitIdleArch /\ InitIdleCat /\ InitIdleFit

ExtractDiscipline ==
    /\ features' = extract_team_match_discipline(events, "Team A", "Team B", card_treatment)
    /\ UNCHANGED <<card_treatment, events, styleVars, zoneVars, nameVars, pipeVars,
                   archVars, catVars, fitVars>>

NextDiscipline == ExtractDiscipline

SpecDiscipline == InitDiscipline /\ [][NextDiscipline]_vars

\* ---- the extraction specification: a match table, then both extractors.

InitFeatures ==
    /\ card_treatment \in {"separate", "red_only"}
    /\ events \in MatchTables
    /\ features = NoFeatures
    /\ style_features = NoStyleFeatures(NotCalled)
    /\ InitIdleZone /\ InitIdleName /\ InitIdlePipe
    /\ InitIdleArch /\ InitIdleCat /\ InitIdleFit

ExtractFeatures ==
    /\ style_features' = extract_team_match_features(events, "Team A", "Team B")
    /\ UNCHANGED <<discVars, zoneVars, nameVars, pipeVars, archVars, catVars, fitVars>>

NextFeatures == ExtractFeatures \/ ExtractDiscipline

SpecFeatures == InitFeatures /\ [][NextFeatures]_vars

\* ---- the zone specification: a location, then its zone.

InitZone ==
    /\ location \in ZoneXs \X ZoneYs
    /\ zone = NoZone
    /\ InitIdleDisc /\ InitIdleStyle /\ InitIdleName /\ InitIdlePipe
    /\ InitIdleArch /\ InitIdleCat /\ InitIdleFit

GetZone ==
    /\ zone' = [status |-> Returned,
                cell |-> get_zone_from_location(location[1], location[2])]
    /\ UNCHANGED <<location, discVars, styleVars, nameVars, pipeVars,
                   archVars, catVars, fitVars>>

NextZone == GetZone

SpecZone == InitZone /\ [][NextZone]_vars

\* ---- the archetype specification: a row of tags, then derive_archetype.

InitArchetype ==
    /\ row \in TagRows
    /\ archetype = NotCalled
    /\ InitIdleDisc /\ InitIdleStyle /\ InitIdleZone /\ InitIdleName /\ InitIdlePipe
    /\ InitIdleCat /\ InitIdleFit

DeriveArchetype ==
    /\ archetype' = derive_archetype(row)
    /\ UNCHANGED <<row, discVars, styleVars, zoneVars, nameVars, pipeVars, catVars, fitVars>>

NextArchetype == DeriveArchetype

SpecArchetype == InitArchetype /\ [][NextArchetype]_vars

\* ---- the categorization specification: a feature row, categorized again
\* and again.

InitCategorize ==
    /\ df \in FeatureRows
    /\ df_given = df
    /\ df_tagged = NoTags(NotCalled)
    /\ df_tagged_prev = NoTags(NotCalled)
    /\ InitIdleDisc /\ InitIdleStyle /\ InitIdleZone /\ InitIdleName /\ InitIdlePipe
    /\ InitIdleArch /\ InitIdleFit

Categorize ==
    /\ df_tagged' = attach_style_tags(df)
    /\ df_tagged_prev' = df_tagged
    /\ df' = TableAfterTagging(df)
    /\ UNCHANGED <<df_given, discVars, styleVars, zoneVars, nameVars, pipeVars, archVars, fitVars>>

NextCategorize == Categorize

SpecCategorize == InitCategorize /\ [][NextCategorize]_vars

\* ---- the threshold specification: a feature row at the thresholds of one
\* categorizer, categorized.

InitThresholds ==
    /\ df \in ThresholdRows
    /\ df_given = df
    /\ df_tagged = NoTags(NotCalled)
    /\ df_tagged_prev = NoTags(NotCalled)
    /\ InitIdleDisc /\ InitIdleStyle /\ InitIdleZone /\ InitIdleName /\ InitIdlePipe
    /\ InitIdleArch /\ InitIdleFit

SpecThresholds == InitThresholds /\ [][NextCategorize]_vars

\* ---- the modeler specification: a prepared table, fits and predictions.

InitFit ==
    /\ table \in Tables
    /\ InitModeler
    /\ InitIdleDisc /\ InitIdleStyle /\ InitIdleZone /\ InitIdleName /\ InitIdlePipe
    /\ InitIdleArch /\ InitIdleCat

Fit ==
    \E args \in FitArgs :
        LET done == fit_zone_nb_models(table, args)
        IN  /\ fit_args' = args
            /\ fitted_models' = done.fitted_models
            /\ model_summaries' = done.model_summaries
            /\ fit_outcome' = IF done.raised THEN Raised ELSE Returned
            /\ predictions' = NoPredictions(NotCalled)
            /\ query' = NoQuery
            /\ last_op' = "fit"
            /\ UNCHANGED <<table, disk, saved,
                           discVars, styleVars, zoneVars, nameVars, pipeVars, archVars, catVars>>

Predict ==
    \E row_ok \in BOOLEAN :
        /\ predictions' = predict_expected_fouls(fitted_models, row_ok)
        /\ UNCHANGED <<table, fitted_models, model_summaries, fit_args, fit_outcome,
                       query, disk, saved, last_op,
                       discVars, styleVars, zoneVars, nameVars, pipeVars, archVars, catVars>>

NextFit == Fit \/ Predict

SpecFit == InitFit /\ [][NextFit]_vars

\* ---- the persistence specification: fits, saves into the model directory,
\* new modelers, loads, and the queries on the modeler.

otherVars == <<discVars, styleVars, zoneVars, nameVars, pipeVars, archVars, catVars>>

InitPersist ==
    /\ table \in PersistTables
    /\ InitModeler
    /\ InitIdleDisc /\ InitIdleStyle /\ InitIdleZone /\ InitIdleName /\ InitIdlePipe
    /\ InitIdleArch /\ InitIdleCat

\* modeler.save_models(output_dir)
Save ==
    /\ disk' = save_models(disk, fitted_models, model_summaries)
    /\ saved' = [status |-> Returned, into_empty |-> disk = EmptyDir,
                 fitted_models |-> fitted_models, model_summaries |-> model_summaries]
    /\ predictions' = NoPredictions(NotCalled)
    /\ query' = NoQuery
    /\ UNCHANGED <<table, fitted_models, model_summaries, fit_args, fit_outcome,
                   last_op, otherVars>>

\* modeler = ZoneNBModeler()
NewModeler ==
    /\ fitted_models' = NoModels
    /\ model_summaries' = NoModels
    /\ fit_args' = [base_present |-> TRUE, interaction_present |-> TRUE]
    /\ fit_outcome' = NotCalled
    /\ predictions' = NoPredictions(NotCalled)
    /\ query' = NoQuery
    /\ last_op' = "new"
    /\ UNCHANGED <<table, disk, saved, otherVars>>

\* modeler.load_models(input_dir)
Load ==
    LET loaded == load_models(disk, model_summaries)
    IN  /\ fitted_models' = loaded.fitted_models
        /\ model_summaries' = loaded.model_summaries
        /\ predictions' = NoPredictions(NotCalled)
        /\ query' = NoQuery
        /\ last_op' = IF last_op = "new" THEN "load_new" ELSE "load"
        /\ UNCHANGED <<table, fit_args, fit_outcome, disk, saved, otherVars>>

\* modeler.extract_referee_slopes(feature)
ExtractSlopes ==
    \E feature_fitted \in BOOLEAN :
        /\ query' = extract_referee_slopes(fitted_models, feature_fitted)
        /\ UNCHANGED <<table, fitted_models, model_summaries, fit_args, fit_outcome,
                       predictions, disk, saved, last_op, otherVars>>

\* modeler.calculate_referee_effects()
CalculateEffects ==
    /\ query' = calculate_referee_effects(fitted_models)
    /\ UNCHANGED <<table, fitted_models, model_summaries, fit_args, fit_outcome,
                   predictions, disk, saved, last_op, otherVars>>

NextPersist ==
    Fit \/ Save \/ NewModeler \/ Load \/ Predict \/ ExtractSlopes \/ CalculateEffects

SpecPersist == InitPersist /\ [][NextPersist]_vars

\* ---- the pipeline specification: a match's events, then the dataset
\* builder or the real-time analyzer on them.

InitPipeline ==
    /\ card_treatment = "separate"
    /\ events \in MatchTables
    /\ features = NoFeatures
    /\ style_features = NoStyleFeatures(NotCalled)
    /\ handoff = NoHandoff
    /\ InitIdleZone /\ InitIdleName /\ InitIdleArch /\ InitIdleCat /\ InitIdleFit

BuildTeamMatch ==
    /\ style_features' = extract_team_match_features(events, "Team A", "Team B")
    /\ features' = IF BuilderStops(style_features') THEN NoFeatures
                   ELSE extract_team_match_discipline(events, "Team A", "Team B",
                                                      card_treatment)
    /\ handoff' = BuilderHandoff(style_features', features')
    /\ UNCHANGED <<card_treatment, events, zoneVars, nameVars, archVars, catVars, fitVars>>

AnalyzeTeamTactics ==
    /\ style_features' = extract_team_match_features(events, "Team A", "Team B")
    /\ features' = IF style_features'.status = Raised THEN NoFeatures
                   ELSE extract_team_match_discipline(events, "Team A", "Team B",
                                                      card_treatment)
    /\ handoff' = AnalyzerHandoff(style_features', features')
    /\ UNCHANGED <<card_treatment, events, zoneVars, nameVars, archVars, catVars, fitVars>>

NextPipeline == BuildTeamMatch \/ AnalyzeTeamTactics

SpecPipeline == InitPipeline /\ [][NextPipeline]_vars

\* ---- the coefficient specification: one coefficient of a fitted model, and
\* the scans of extract_referee_slopes and calculate_referee_effects over it.

InitNames ==
    /\ coefficient \in Coefficients
    /\ parsed = NotParsed
    /\ InitIdleDisc /\ InitIdleStyle /\ InitIdleZone /\ InitIdlePipe
    /\ InitIdleArch /\ InitIdleCat /\ InitIdleFit

ScanForSlope ==
    \E feature \in InteractionFeatures :
        /\ parsed' = slope_data(feature, coefficient)
        /\ UNCHANGED <<coefficient, discVars, styleVars, zoneVars, pipeVars,
                       archVars, catVars, fitVars>>

ScanForEffect ==
    /\ parsed' = effect_data(coefficient)
    /\ UNCHANGED <<coefficient, discVars, styleVars, zoneVars, pipeVars,
                   archVars, catVars, fitVars>>

NextNames == ScanForSlope \/ ScanForEffect

SpecNames == InitNames /\ [][NextNames]_vars

\* ---- properties of the extracted discipline features

\* The rows of the table that are fouls of Team A carrying a usable location.
LocatedTeamFouls ==
    { i \in 1 .. Len(events.rows) :
        /\ events.rows[i].team_name = "Team A"
        /\ events.rows[i].event_type_name \in {"Foul Committed", "Bad Behaviour"}
        /\ Len(events.rows[i].location.list) >= 2 }

XOf(i) == events.rows[i].location.list[1]
YOf(i) == events.rows[i].location.list[2]

\* C1: in every feature map extract_team_match_discipline returns, the 15
\* foul_grid cells sum to located_fouls, and located_fouls is the number of the
\* team's foul rows with a location, on, inside or outside the pitch boundary.
C1_GridSumsToLocatedFouls ==
    features.status = Returned =>
        /\ SumOver(features.foul_grid, Zones) = features.located_fouls
        /\ features.located_fouls = Cardinality(LocatedTeamFouls)
        /\ \A z \in Zones : features.foul_grid[z] >= 0

\* Two located fouls in one cell, one of them beyond the pitch boundary.
C1_Witness ==
    /\ features.status = Returned
    /\ features.located_fouls >= 2
    /\ features.foul_grid[<<4, 2>>] = 2
    /\ \E i \in LocatedTeamFouls : XOf(i) > field_length /\ YOf(i) > field_width
    /\ \E i \in LocatedTeamFouls : XOf(i) = field_length /\ YOf(i) = field_width

\* C10: in every returned feature map the three third-shares and the three
\* width-shares each sum to 1 within 0.1; with a located foul each share is its
\* band's count over located_fouls, with none the shares are the fixed priors
\* 0.2/0.5/0.3 and 0.25/0.5/0.25.
C10_SharesSumToOne ==
    features.status = Returned =>
        /\ SumWithinTenthOfOne(features.foul_share_def_third,
                               features.foul_share_mid_third,
                               features.foul_share_att_third)
        /\ SumWithinTenthOfOne(features.foul_share_left,
                               features.foul_share_center,
                               features.foul_share_right)
        /\ features.located_fouls > 0 =>
              LET n == features.located_fouls
                  Band(P(_)) == Cardinality({i \in LocatedTeamFouls : P(i)})
              IN  /\ features.foul_share_def_third
                        = Share(Band(LAMBDA i : XOf(i) < 400), n)
                  /\ features.foul_share_mid_third
                        = Share(Band(LAMBDA i : XOf(i) >= 400 /\ XOf(i) < 800), n)
                  /\ features.foul_share_att_third
                        = Share(Band(LAMBDA i : XOf(i) >= 800), n)
                  /\ features.foul_share_left
                        = Share(Band(LAMBDA i : 3 * YOf(i) < 800), n)
                  /\ features.foul_share_center
                        = Share(Band(LAMBDA i : 3 * YOf(i) >= 800 /\ 3 * YOf(i) < 1600), n)
                  /\ features.foul_share_right
                        = Share(Band(LAMBDA i : 3 * YOf(i) >= 1600), n)
        /\ features.located_fouls = 0 =>
              /\ features.foul_share_def_third = Share(20, 100)
              /\ features.foul_share_mid_third = Share(50, 100)
              /\ features.foul_share_att_third = Share(30, 100)
              /\ features.foul_share_left = Share(25, 100)
              /\ features.foul_share_center = Share(50, 100)
              /\ features.foul_share_right = Share(25, 100)

\* Located fouls in two different thirds beside a foul without a location.
C10_Witness ==
    /\ features.status = Returned
    /\ features.located_fouls = 2
    /\ features.missing_location_fouls = 1
    /\ features.foul_share_def_third = Share(1, 2)
    /\ features.foul_share_att_third = Share(1, 2)
    /\ features.foul_share_center = Share(1, 2)


\* ---- properties of derive_archetype

\* The tag the rules see under key k: blank-stripped, "" when absent or None.
Tag(k) ==
    IF row[k] \in {Missing, None, ""} THEN "" ELSE Strip(row[k])

Called == archetype # NotCalled
Derived == archetype \notin {NotCalled, Raised}

StartsWith(str, prefix) ==
    Len(str) >= Len(prefix) /\ SubSeq(str, 1, Len(prefix)) = prefix

\* The text starts with this core label, alone or followed by " + ".
HasCore(text, core) ==
    \/ text = core
    \/ StartsWith(text, core \o " + ")

\* The ordered rule table of the specification, rule k over the tags with
\* pressing p, and its label.
RuleApplies(k, p) ==
    LET b == Tag("cat_block")
        d == Tag("cat_possess_dir")
        t == Tag("cat_transition")
    IN  CASE k = 1 -> p = "Low Press" /\ b = "Low Block" /\ t = "High Transition"
          [] k = 2 -> p = "Low Press" /\ b = "Low Block"
          [] k = 3 -> p = "High Press" /\ b = "High Block" /\ d = "Possession-Based"
          [] k = 4 -> p = "High Press" /\ b = "High Block"
                      /\ (d = "Direct" \/ t = "High Transition")
          [] k = 5 -> p = "Mid Press" /\ b = "Mid Block" /\ d = "Possession-Based"
          [] OTHER -> TRUE

RuleLabels ==
    << "Low-Block Counter", "Low-Block Contain", "High-Press Possession",
       "High-Press Direct", "Mid-Block Possession", "Mid-Block Balanced" >>

FirstRule(p) ==
    CHOOSE k \in 1 .. 6 : RuleApplies(k, p) /\ \A j \in 1 .. (k - 1) : ~RuleApplies(j, p)

\* C2: the core label of the returned archetype is that of the first rule of
\* the ordered table that applies, with pressing 'Very High Press' read as
\* 'High Press'; and a 'Very High Press' row gets the archetype of the same row
\* with 'High Press'.
C2_CoreFirstMatchWins ==
    Derived =>
        LET p == IF Tag("cat_pressing") = "Very High Press"
                 THEN "High Press" ELSE Tag("cat_pressing")
        IN  /\ HasCore(archetype, RuleLabels[FirstRule(p)])
            /\ row.cat_pressing = "Very High Press" =>
                  archetype = derive_archetype([row EXCEPT !.cat_pressing = "High Press"])

\* A 'Very High Press' row that rule 4 decides (rule 3 does not apply).
C2_Witness ==
    /\ Derived
    /\ row.cat_pressing = "Very High Press"
    /\ Tag("cat_block") = "High Block"
    /\ row.cat_possess_dir = "Balanced"
    /\ row.cat_transition = "High Transition"
    /\ HasCore(archetype, "High-Press Direct")

\* The overlays of the row as a set (none when the list is None or absent).
OverlaySet ==
    IF row.cat_overlays.kind = "list"
    THEN {row.cat_overlays.items[i] : i \in 1 .. Len(row.cat_overlays.items)}
    ELSE {}

SuffixApplies(sfx) ==
    CASE sfx = "Wing Overload Crossers" ->
             Tag("cat_width") = "Wing Overload" /\ "Cross-Heavy" \in OverlaySet
      [] sfx = "Central Combinational" ->
             Tag("cat_width") = "Central Focus"
             /\ Tag("cat_possess_dir") = "Possession-Based"
      [] sfx = "Set-Piece Focus" -> "Set-Piece Focus" \in OverlaySet

SuffixOrder == << "Wing Overload Crossers", "Central Combinational", "Set-Piece Focus" >>

RECURSIVE Reverse(_)
Reverse(q) == IF q = <<>> THEN <<>> ELSE Append(Reverse(Tail(q)), Head(q))

\* C3: the archetype is the core label alone when no suffix applies, else the
\* core followed by " + " and the applicable suffixes joined by " + " in the
\* fixed order; it is the same for the overlay list in reverse order.
C3_SuffixComposition ==
    Derived =>
        LET core == CoreLabel(NormalizePressing(Tag("cat_pressing")), Tag("cat_block"),
                              Tag("cat_possess_dir"), Tag("cat_transition"))
            applicable == SelectSeq(SuffixOrder, SuffixApplies)
            text == IF applicable = <<>> THEN core
                    ELSE IF Len(applicable) = 1 THEN core \o " + " \o applicable[1]
                    ELSE core \o " + " \o applicable[1] \o " + " \o applicable[2]
        IN  /\ Len(applicable) <= 2
            /\ archetype = text
            /\ row.cat_overlays.kind = "list" =>
                  archetype = derive_archetype(
                      [row EXCEPT !.cat_overlays.items = Reverse(@)])

\* Two suffixes, with the overlays listed in the order opposite to the
\* suffixes'.
C3_Witness ==
    /\ row.cat_overlays = OverlayList(<<"Set-Piece Focus", "Cross-Heavy">>)
    /\ row.cat_width = "Wing Overload"
    /\ row.cat_pressing = "Low Press"
    /\ row.cat_block = "Low Block"
    /\ row.cat_transition = "High Transition"
    /\ archetype = "Low-Block Counter + Wing Overload Crossers + Set-Piece Focus"

\* Every axis tag of the row is a string, None or absent.
NoNaNTag == \A k \in AxisKeys : row[k] # NaN

\* C4: for a row whose axis tags and overlay list may each be absent, None or
\* empty, derive_archetype returns a label and does not raise; with pressing
\* or block absent, None or empty the core label is 'Mid-Block Balanced'.
C4_TotalOnMissingFields ==
    (Called /\ NoNaNTag) =>
        /\ archetype # Raised
        /\ \E k \in 1 .. 6 : HasCore(archetype, RuleLabels[k])
        /\ (row.cat_pressing \in {Missing, None, ""} \/ row.cat_block \in {Missing, None, ""})
              => HasCore(archetype, "Mid-Block Balanced")

\* Pressing empty, block None, the overlay list absent.
C4_Witness ==
    /\ row.cat_pressing = ""
    /\ row.cat_block = None
    /\ row.cat_possess_dir = "Balanced"
    /\ row.cat_width = None
    /\ row.cat_transition = Missing
    /\ row.cat_overlays = NoOverlays(Missing)
    /\ archetype = "Mid-Block Balanced"


\* ---- properties of the categorization

FittedZones == DOMAIN fitted_models

\* C6: predict_expected_fouls returns one key for each zone that has a fitted
\* model and no key for any other zone: with models for k of the 15 zones it
\* returns exactly those k keys.
C6_PredictionKeysAreFittedZones ==
    predictions.status = Returned =>
        /\ DOMAIN predictions.by_zone = FittedZones
        /\ Cardinality(DOMAIN predictions.by_zone) = Cardinality(FittedZones)
        /\ \A z \in Zones \ FittedZones : z \notin DOMAIN predictions.by_zone

C6_Witness ==
    /\ predictions.status = Returned
    /\ Cardinality(FittedZones) = x_bins * y_bins - 2
    /\ Cardinality(DOMAIN predictions.by_zone) = x_bins * y_bins - 2
    /\ \E z \in FittedZones : predictions.by_zone[z] = "predicted"

\* C7: after a fit, a zone whose response total over the training table is
\* below min_zone_events has no fitted model and no model summary, whatever
\* the other zones' outcomes and whatever the feature lists of the call.
C7_SparseZoneHasNoModel ==
    fit_outcome # NotCalled =>
        \A z \in Zones :
            table.zone_total[z] < min_zone_events =>
                z \notin DOMAIN fitted_models /\ z \notin DOMAIN model_summaries

C7_Witness ==
    /\ fit_outcome = Returned
    /\ fit_args.base_present
    /\ \E z \in Zones : /\ table.zone_total[z] = min_zone_events - 1
                        /\ z \notin DOMAIN fitted_models
    /\ \E z \in Zones : /\ table.zone_total[z] = min_zone_events
                        /\ table.solver[z] = "inf_aic"
                        /\ z \in DOMAIN fitted_models
    /\ Cardinality(DOMAIN model_summaries) = x_bins * y_bins - 1

\* The table with the solver succeeding on zone z, all else equal.
WithSolverOk(tbl, z) == [tbl EXCEPT !.solver[z] = "ok"]

SolverFails(z) ==
    /\ table.zone_total[z] >= min_zone_events
    /\ table.solver[z] \in {"not_converged", "raises"}

\* C8: a fit never ends with an error because a zone's solver failed; a zone
\* whose solver does not converge or raises has no model and no summary, and
\* every other zone has the model and the summary it would have had, had the
\* solver succeeded on the failing zone.
C8_ZoneFailureIsIsolated ==
    fit_outcome # NotCalled =>
        /\ fit_outcome = Returned
        /\ DOMAIN model_summaries = DOMAIN fitted_models
        /\ \A z \in Zones :
              SolverFails(z) =>
                  /\ z \notin DOMAIN fitted_models
                  /\ z \notin DOMAIN model_summaries
                  /\ LET had_it_succeeded ==
                             fit_zone_nb_models(WithSolverOk(table, z), fit_args)
                     IN  \A o \in Zones \ {z} :
                            /\ o \in DOMAIN fitted_models
                                 <=> o \in DOMAIN had_it_succeeded.fitted_models
                            /\ o \in DOMAIN fitted_models =>
                                 /\ fitted_models[o] = had_it_succeeded.fitted_models[o]
                                 /\ model_summaries[o] = had_it_succeeded.model_summaries[o]

C8_Witness ==
    /\ fit_outcome = Returned
    /\ fit_args.base_present
    /\ SolverFails(<<0, 0>>) /\ table.solver[<<0, 0>>] = "raises"
    /\ SolverFails(<<2, 1>>) /\ table.solver[<<2, 1>>] = "not_converged"
    /\ DOMAIN fitted_models = Zones \ {<<0, 0>>, <<2, 1>>}
    /\ fitted_models[<<4, 2>>].converged

\* C9: a fit whose feature_list or interaction_features names a column the
\* table does not have ends with an error: it returns no model map and does
\* not drop the term.  (The code does neither; see C9_Witness.)
C9_MissingFeatureAbortsFit ==
    (fit_outcome # NotCalled /\ ~(fit_args.base_present /\ fit_args.interaction_present))
        => fit_outcome = Raised

\* A fit that names a missing interaction column returns models without the
\* interaction term.
C9_Witness ==
    /\ fit_outcome = Returned
    /\ fit_args.base_present /\ ~fit_args.interaction_present
    /\ \E z \in FittedZones : fitted_models[z].terms = "base + home + referee"

\* ---- properties of the emitted features

\* A quotient that lies in [0, 1].
InUnitInterval(q) == q.den > 0 /\ 0 <= q.num /\ q.num <= q.den

StyleShareFields ==
    {"possession_share", "def_share_def_third", "def_share_mid_third",
     "def_share_att_third", "lane_left_share", "lane_center_share",
     "lane_right_share", "wing_share", "directness", "forward_pass_share",
     "long_pass_share", "cross_share", "through_ball_share"}

DisciplineShareFields ==
    {"foul_share_def_third", "foul_share_mid_third", "foul_share_att_third",
     "foul_share_left", "foul_share_center", "foul_share_right", "foul_share_wide"}

DisciplineCountFields ==
    {"fouls_committed", "yellows", "reds", "second_yellows", "located_fouls",
     "missing_location_fouls"}

\* C11: every share emitted by extract_team_match_features and by
\* extract_team_match_discipline lies in [0, 1], and every count field of the
\* discipline features, each zone count included, is a non-negative integer.
C11_SharesAndCountsInRange ==
    /\ style_features.status = Returned =>
            \A f \in StyleShareFields : InUnitInterval(style_features[f])
    /\ features.status = Returned =>
            /\ \A f \in DisciplineShareFields : InUnitInterval(features[f])
            /\ \A f \in DisciplineCountFields : features[f] \in Nat
            /\ \A z \in Zones : features.foul_grid[z] \in Nat

C11_Witness ==
    /\ style_features.status = Returned
    /\ features.status = Returned
    /\ style_features.directness = Share(30, 450)
    /\ style_features.cross_share = Share(1, 2)
    /\ features.located_fouls = 1
    /\ features.foul_share_right = Share(1, 1)
    /\ features.second_yellows = 1

\* C19: on an empty table with no columns both extractors return their
\* default feature values and do not raise.
C19_EmptyTableGivesDefaults ==
    events = NoColumnsTable =>
        /\ style_features.status # NotCalled =>
                style_features = [status |-> Returned] @@ _get_empty_features
        /\ features.status # NotCalled =>
                features = [status |-> Returned] @@ get_empty_discipline_features

\* Both extractors called on the table without columns, and both raised.
C19_Witness ==
    /\ events = NoColumnsTable
    /\ style_features.status = Raised
    /\ features.status = Raised

\* ---- properties of the card tallies

\* The team's foul rows that carry the given card: in foul_card, or, for a
\* Bad Behaviour row without one, in card_type.
RowsWithCard(card) ==
    { i \in 1 .. Len(events.rows) :
        LET r == events.rows[i]
        IN  /\ r.team_name = "Team A"
            /\ r.event_type_name \in {"Foul Committed", "Bad Behaviour"}
            /\ \/ r.foul_card = card
               \/ r.foul_card = None /\ r.event_type_name = "Bad Behaviour"
                  /\ r.card_type = card }

\* C13: second_yellows is the number of 'Second Yellow' cards; yellows is the
\* number of 'Yellow Card's, plus the second yellows under card_treatment =
\* 'separate' and nothing more under any other treatment; reds is the number
\* of 'Red Card's plus the second yellows under every treatment.
C13_CardTallies ==
    features.status = Returned =>
        LET y == Cardinality(RowsWithCard("Yellow Card"))
            r == Cardinality(RowsWithCard("Red Card"))
            sy == Cardinality(RowsWithCard("Second Yellow"))
        IN  /\ features.second_yellows = sy
            /\ features.reds = r + sy
            /\ features.yellows = IF card_treatment = "separate" THEN y + sy ELSE y

C13_Witness ==
    /\ features.status = Returned
    /\ card_treatment = "separate"
    /\ Cardinality(RowsWithCard("Second Yellow")) = 2
    /\ Cardinality(RowsWithCard("Yellow Card")) = 1
    /\ features.yellows = 3 /\ features.reds = 2 /\ features.second_yellows = 2

\* ---- properties of the categorizers

\* The PPDA band and the attacking-third band, as levels 4 (very_high) to 1
\* (low); a NaN or an infinite PPDA and an absent value fall in the else band.
PpdaLevel(a) ==
    IF a.kind # "num" THEN 1
    ELSE IF a.v < 800 THEN 4 ELSE IF a.v < 1200 THEN 3 ELSE IF a.v < 1800 THEN 2 ELSE 1

AttThirdLevel(a) ==
    IF a.kind # "num" THEN 1
    ELSE IF a.v >= 40 THEN 4 ELSE IF a.v >= 25 THEN 3 ELSE IF a.v >= 15 THEN 2 ELSE 1

PressingOfLevel(l) ==
    CASE l = 4 -> "Very High Press" [] l = 3 -> "High Press"
      [] l = 2 -> "Mid Press" [] OTHER -> "Low Press"

\* C15: on a row whose ppda and def_share_att_third are floats (or absent),
\* categorize_pressing returns the higher of the PPDA band and the
\* attacking-third band and raises nothing; with an infinite PPDA the result
\* is the attacking-third band.
C15_PressingIsHigherBand ==
    (df_tagged.status # NotCalled
       /\ df.ppda.kind # "none" /\ df.def_share_att_third.kind # "none") =>
        /\ df_tagged.status = Returned
        /\ df_tagged.cat_pressing =
               PressingOfLevel(Max(PpdaLevel(df.ppda),
                                   AttThirdLevel(df.def_share_att_third)))
        /\ df.ppda = Inf =>
               df_tagged.cat_pressing =
                   PressingOfLevel(AttThirdLevel(df.def_share_att_third))

C15_Witness ==
    /\ df_tagged.status = Returned
    /\ df.ppda = Inf
    /\ df.def_share_att_third = Num(25)
    /\ df_tagged.cat_pressing = "High Press"

\* A missing, None or NaN input counts as 0.5.
OrHalf(a) == IF a.kind = "num" THEN a.v ELSE 50

PossessionClass(a) ==
    IF OrHalf(a) >= 55 THEN "Possession-Based"
    ELSE IF OrHalf(a) >= 45 THEN "Balanced" ELSE "Direct"

DirectnessClass(a) ==
    IF OrHalf(a) >= 60 THEN "Direct"
    ELSE IF OrHalf(a) >= 40 THEN "Balanced" ELSE "Possession-Based"

\* C16: categorize_possession_directness returns 'Balanced' when the
\* possession class and the directness class are opposite extremes, else the
\* possession class; a missing, None or NaN input counts as 0.5.
C16_PossessionDirectness ==
    df_tagged.status = Returned =>
        LET p == PossessionClass(df.possession_share)
            d == DirectnessClass(df.directness)
        IN  df_tagged.cat_possess_dir =
                IF \/ p = "Possession-Based" /\ d = "Direct"
                   \/ p = "Direct" /\ d = "Possession-Based"
                THEN "Balanced" ELSE p

C16_Witness ==
    /\ df_tagged.status = Returned
    /\ \/ /\ df.possession_share = Num(44) /\ df.directness = Num(39)
          /\ df_tagged.cat_possess_dir = "Balanced"
       \/ /\ df.possession_share = NaNValue /\ df.directness = Num(60)
          /\ df_tagged.cat_possess_dir = "Balanced"

\* The overlays of the categorized row, as a set.
EmittedOverlays == {df_tagged.cat_overlays[i] : i \in 1 .. Len(df_tagged.cat_overlays)}

\* The value a threshold is tested on: the row's, or the default when the
\* row has none (absent, None or NaN).
OrElse(a, default) == IF a.kind = "num" THEN a.v ELSE default

Floor(n, d) == n \div d

Clamp(v, lo, hi) == Max(lo, Min(v, hi))

\* C12 as stated, with a zone width of 26.67: a location's zone is
\* (clamp(floor(x / 24), 0, 4), clamp(floor(y / 26.67), 0, 2)).
C12_ZoneWidthRounded ==
    zone.status = Returned =>
        zone.cell = << Clamp(Floor(location[1], 24000), 0, 4),
                       Clamp(Floor(location[2], 26670), 0, 2) >>

\* C12, amended: a location's zone is (clamp(floor(x / 24), 0, 4),
\* clamp(floor(y / (80 / 3)), 0, 2)), the boundary points x = 120 and y = 80
\* in the last zone and negative coordinates in zone 0; the zone counted for
\* a located foul at the same point is the same.
C12_ZoneOfLocation ==
    zone.status = Returned =>
        /\ zone.cell = << Clamp(Floor(location[1], 24000), 0, 4),
                          Clamp(Floor(3 * location[2], 80000), 0, 2) >>
        /\ (location[1] = 120000 => zone.cell[1] = 4)
        /\ (location[2] = 80000 => zone.cell[2] = 2)
        /\ (location[1] < 0 => zone.cell[1] = 0)
        /\ (location[2] < 0 => zone.cell[2] = 0)
        /\ (location[1] % 100 = 0 /\ location[2] % 100 = 0 =>
                GridCell(location[1] \div 100, location[2] \div 100) = zone.cell)

\* The boundary point (120, 80), and a point between 26.66.. and 26.67.
C12_Witness ==
    /\ zone.status = Returned
    /\ \/ location = <<120000, 80000>> /\ zone.cell = <<4, 2>>
       \/ location = <<-5000, 26669>> /\ zone.cell = <<0, 1>>

\* ---- persistence and the queries on an empty modeler

\* model_summaries.csv written by save_models and read back by load_models
\* leaves every summary as it was.
SummariesSurviveCsv ==
    \A z \in DOMAIN model_summaries : model_summaries[z].coefficients.kind = "dict"

\* A fresh modeler has just loaded a directory that was empty before a fitted
\* modeler saved into it.
LoadedWhatWasSaved ==
    /\ last_op = "load_new"
    /\ saved.status = Returned
    /\ saved.into_empty
    /\ saved.fitted_models # NoModels

\* C14: after save_models of a fitted modeler into an empty directory and
\* load_models on a fresh modeler, fitted_models and model_summaries hold the
\* same zones with the same records, and get_model_diagnostics gives the
\* result it gave before the save.
C14_RoundTripExact ==
    LoadedWhatWasSaved =>
        /\ fitted_models = saved.fitted_models
        /\ model_summaries = saved.model_summaries
        /\ get_model_diagnostics(fitted_models, model_summaries)
              = get_model_diagnostics(saved.fitted_models, saved.model_summaries)

\* The loaded pickles are the saved models, the loaded summaries hold the
\* coefficients as text, and the diagnostics that returned before now raise.
C14_Witness ==
    /\ LoadedWhatWasSaved
    /\ fitted_models = saved.fitted_models
    /\ DOMAIN model_summaries = DOMAIN saved.model_summaries
    /\ ~SummariesSurviveCsv
    /\ get_model_diagnostics(saved.fitted_models, saved.model_summaries).status = Returned
    /\ get_model_diagnostics(fitted_models, model_summaries).status = Raised

\* A call of extract_referee_slopes, calculate_referee_effects or
\* predict_expected_fouls has just ended.
QueryEnded ==
    \/ query' # query /\ query'.status # NotCalled
    \/ predictions' # predictions /\ predictions'.status # NotCalled

\* C18: on a modeler without fitted models, extract_referee_slopes,
\* predict_expected_fouls and calculate_referee_effects raise ValueError and
\* leave fitted_models, model_summaries and the model directory as they were.
C18_NoModelsRaise ==
    [][ (fitted_models = NoModels /\ QueryEnded) =>
            /\ query'.status \in {NotCalled, Raised}
            /\ predictions'.status \in {NotCalled, Raised}
            /\ UNCHANGED <<fitted_models, model_summaries, fit_args, disk>> ]_vars

\* The three ways to an empty modeler, each with a query and a prediction
\* that raised: new, a fit that kept no zone, a load of an empty directory.
C18_Witness ==
    /\ fitted_models = NoModels
    /\ query.status = Raised
    /\ predictions.status = Raised
    /\ \/ last_op = "load_new" /\ disk = EmptyDir
       \/ last_op = "fit" /\ fit_outcome = Returned

\* C20: a zone whose prediction is unavailable for the row is left out of the
\* result of predict_expected_fouls; the result holds no 0.0 standing for a
\* failed prediction.
C20_UnavailablePredictionOmitted ==
    predictions.status = Returned =>
        \A z \in DOMAIN predictions.by_zone : predictions.by_zone[z] # "zero"

\* A returned prediction in which every fitted zone carries the 0.0 of a
\* failed model.predict.
C20_Witness ==
    /\ predictions.status = Returned
    /\ fitted_models # NoModels
    /\ \A z \in DOMAIN fitted_models : predictions.by_zone[z] = "zero"

\* ---- what a fit keeps

\* C21: a zone whose fitted model has a non-finite AIC (NaN or infinite) is
\* not in the model map that fit_zone_nb_models returns.
C21_NonFiniteAicDiscarded ==
    (last_op = "fit" /\ fit_outcome = Returned) =>
        \A z \in DOMAIN fitted_models :
            /\ table.solver[z] \notin {"nan_aic", "inf_aic"}
            /\ fitted_models[z].aic = "finite"

\* A returned fit that kept a zone whose AIC is infinite.
C21_Witness ==
    /\ last_op = "fit" /\ fit_outcome = Returned
    /\ \E z \in DOMAIN fitted_models :
          table.solver[z] = "inf_aic" /\ fitted_models[z].aic = "inf"

\* C29: every model a fit stores has converged and an AIC that is not NaN,
\* and get_model_diagnostics after a fit that kept a model reports every
\* model converged and as many models as the map has zones.
C29_StoredModelsConverged ==
    (last_op = "fit" /\ fit_outcome = Returned /\ fitted_models # NoModels) =>
        LET diagnostics == get_model_diagnostics(fitted_models, model_summaries)
        IN  /\ \A z \in DOMAIN fitted_models :
                  fitted_models[z].converged /\ fitted_models[z].aic # "nan"
            /\ diagnostics.status = Returned
            /\ diagnostics.total_models = Cardinality(DOMAIN fitted_models)
            /\ diagnostics.converged = diagnostics.total_models

\* A fit on a table with a zone that did not converge and a zone with a NaN
\* AIC, which kept the other zones.
C29_Witness ==
    /\ last_op = "fit" /\ fit_outcome = Returned /\ fitted_models # NoModels
    /\ \E z \in Zones : table.solver[z] = "not_converged"
    /\ \E z \in Zones : table.solver[z] = "nan_aic"
    /\ get_model_diagnostics(fitted_models, model_summaries).total_models
          = Cardinality(DOMAIN fitted_models)

\* ---- the scans of the coefficient names

\* C22: a coefficient that calculate_referee_effects reports as a referee
\* effect is not one that extract_referee_slopes accepts as a feature x
\* referee interaction, for any interaction feature.
C22_EffectsExcludeInteractions ==
    (parsed.op = "effects" /\ parsed.accepted) =>
        \A feature \in InteractionFeatures : ~SlopeAccepts(feature, coefficient.name)

\* The interaction term of referee a is reported as an effect of referee a.
C22_Witness ==
    /\ parsed.op = "effects" /\ parsed.accepted
    /\ coefficient.name = InteractionName("directness", <<"a">>)
    /\ parsed.referee_name = <<"a">>

\* C23: for every referee name r and interaction feature f, the scan of
\* 'z_f:C(referee_name)[T.r]' for feature f gives a slope record whose
\* referee_name is r and whose significant is (p-value < alpha).
C23_RefereeRecovered ==
    (parsed.op = "slopes" /\ coefficient.kind = "interaction"
       /\ parsed.feature = coefficient.feature) =>
        /\ parsed.accepted
        /\ parsed.referee_name = coefficient.referee
        /\ parsed.significant = (coefficient.pvalue < alpha)

\* The interaction term of a referee whose name ends with ']' gives a slope
\* record under the name without its last character.
C23_Witness ==
    /\ parsed.op = "slopes" /\ parsed.accepted
    /\ coefficient.kind = "interaction" /\ parsed.feature = coefficient.feature
    /\ coefficient.referee = <<"a", "]">>
    /\ parsed.referee_name = <<"a">>
    /\ parsed.significant = (coefficient.pvalue < alpha)

\* ---- rows handed on by the builder and by the analyzer

\* C24: a feature row that fails validate_features or
\* validate_discipline_features is handed on neither by the dataset builder
\* nor by the real-time analyzer.
C24_InvalidRowsRejected ==
    handoff.status = Returned =>
        validate_features(style_features) /\ validate_discipline_features(features)

\* The analyzer hands on a row whose block_height_x lies beyond the pitch.
C24_Witness ==
    /\ handoff = Handoff("realtime", Returned)
    /\ ~validate_features(style_features)
    /\ style_features.block_height_x.num > field_length * style_features.block_height_x.den

\* ---- located and unlocated fouls

\* The rows of the table that are Foul Committed or Bad Behaviour rows of
\* Team A.
TeamFoulRows ==
    { i \in 1 .. Len(events.rows) :
        /\ events.rows[i].team_name = "Team A"
        /\ events.rows[i].event_type_name \in {"Foul Committed", "Bad Behaviour"} }

\* C25: in every output of extract_team_match_discipline, located_fouls +
\* missing_location_fouls = fouls_committed, the number of the team's Foul
\* Committed and Bad Behaviour rows; with no located row located_fouls = 0 and
\* missing_location_fouls = fouls_committed.
C25_LocatedPlusMissing ==
    features.status = Returned =>
        /\ features.located_fouls + features.missing_location_fouls
              = features.fouls_committed
        /\ features.fouls_committed = Cardinality(TeamFoulRows)
        /\ LocatedTeamFouls = {} =>
              /\ features.located_fouls = 0
              /\ features.missing_location_fouls = features.fouls_committed

\* A table with a located foul, a foul without location and a Bad Behaviour
\* row whose location is too short.
C25_Witness ==
    /\ features.status = Returned
    /\ features.fouls_committed = 3
    /\ features.located_fouls = 1
    /\ features.missing_location_fouls = 2
    /\ \E i \in TeamFoulRows : events.rows[i].event_type_name = "Bad Behaviour"

\* ---- the two maps of the modeler, and the directory across runs

\* C26: after any sequence of fit_zone_nb_models and load_models calls,
\* model_summaries has an entry for exactly the zones of fitted_models.
C26_SummariesMatchModels ==
    last_op \in {"fit", "load", "load_new"} =>
        DOMAIN model_summaries = DOMAIN fitted_models

\* A fit that kept a zone, then a load from a directory without files: no
\* model is left and the summaries of the fit are still there.
C26_Witness ==
    /\ last_op = "load"
    /\ disk = EmptyDir
    /\ fitted_models = NoModels
    /\ model_summaries # NoModels

\* C27: a load_models that follows fit-and-save runs into the directory
\* yields exactly the zones the most recent save_models wrote.
C27_LoadsLatestSaveOnly ==
    (last_op \in {"load", "load_new"} /\ saved.status = Returned) =>
        DOMAIN fitted_models = DOMAIN saved.fitted_models

\* The latest run fitted and saved no zone; the load brings back the zone
\* files of the run before it.
C27_Witness ==
    /\ last_op = "load_new"
    /\ saved.status = Returned /\ ~saved.into_empty
    /\ saved.fitted_models = NoModels
    /\ fitted_models # NoModels
    /\ DOMAIN fitted_models = DOMAIN disk.pkl

\* ---- transition tags and the archetype rules

\* C28: in attach_style_tags followed by derive_archetype, a Low Press + Low
\* Block row with counter_rate >= 0.15 gets the core 'Low-Block Counter', and a
\* High or Very High Press + High Block row that is not Possession-Based with
\* counter_rate >= 0.15 gets the core 'High-Press Direct'.
C28_HighTransitionRecognised ==
    (df_tagged.status = Returned /\ Ge(df.counter_rate, 15)) =>
        /\ (df_tagged.cat_pressing = "Low Press" /\ df_tagged.cat_block = "Low Block")
              => HasCore(df_tagged.style_archetype, "Low-Block Counter")
        /\ (df_tagged.cat_pressing \in {"High Press", "Very High Press"}
              /\ df_tagged.cat_block = "High Block"
              /\ df_tagged.cat_possess_dir # "Possession-Based")
              => HasCore(df_tagged.style_archetype, "High-Press Direct")

\* A Low Press + Low Block row with counter_rate 0.30: tagged 'Very High
\* Transition' and given 'Low-Block Contain', where the same row with
\* counter_rate 0.20 gets 'Low-Block Counter'.
C28_Witness ==
    /\ df_tagged.status = Returned
    /\ df.counter_rate = Num(30)
    /\ df_tagged.cat_pressing = "Low Press" /\ df_tagged.cat_block = "Low Block"
    /\ df_tagged.cat_transition = "Very High Transition"
    /\ HasCore(df_tagged.style_archetype, "Low-Block Contain")
    /\ HasCore(attach_style_tags([df EXCEPT !.counter_rate = Num(20)]).style_archetype,
               "Low-Block Counter")

\* ---- overlays of rows without observed values

\* The value is absent from the row, None or NaN.
Unobserved(value) == value.kind \in {"missing", "none", "nan"}

\* C30: a row in which cross_share and lane_center_share are missing or NaN
\* is tagged with neither 'Cross-Heavy' nor 'Central Leaning'.
C30_OverlaysOnObservedValues ==
    (df_tagged.status = Returned /\ Unobserved(df.cross_share)
       /\ Unobserved(df.lane_center_share)) =>
        /\ ~_has("Cross-Heavy", df_tagged.cat_overlays)
        /\ ~_has("Central Leaning", df_tagged.cat_overlays)

\* A row with a NaN cross_share and no lane_center_share, tagged with both
\* overlays.
C30_Witness ==
    /\ df_tagged.status = Returned
    /\ df.cross_share = NaNValue
    /\ df.lane_center_share = Absent
    /\ _has("Cross-Heavy", df_tagged.cat_overlays)
    /\ _has("Central Leaning", df_tagged.cat_overlays)

====
